---- MODULE Spec2Model ----
(***************************************************************************)
(* Geyser plugin that filters validator notifications (account writes,     *)
(* transactions, block metadata, slot status) and publishes them to        *)
(* per-kind topics: selectors, message construction, dispatch and sender.  *)
(***************************************************************************)
EXTENDS Integers, Sequences, FiniteSets, TLC

VARIABLES
    args,    \* inputs of a selector applied on its own (SelSpec)
    res,     \* result of that application
    inner,   \* GeyserPluginRabbitMq.0 : Option<Arc<Inner>>
    tasks,   \* dispatch units spawned on Inner.rt and not finished yet
    errs,    \* Sender.metrics.errs
    call,    \* the host's last call of an entry point and what it returned
    lock,    \* Sender.producer : RwLock<Producer>, its readers and its writer
    wire     \* the last record a dispatch unit handed to the producer

vars == <<args, res, inner, tasks, errs, call, lock, wire>>

\* ------------------------------------------------------------------ bounds

\* dispatch units the runtime holds at once
MaxPending == 2
\* cap of the error counter
MaxErrs == 1

\* ------------------------------------------------------------------ options

None == <<>>
Some(v) == <<v>>
is_some(o) == o # None
unwrap(o) == o[1]
unwrap_or(o, default) == IF o = None THEN default ELSE o[1]

\* ------------------------------------------------------------------ keys

KEY_LEN == 32

\* solana_program::system_program::id().to_bytes()
system_program_id == [i \in 1..KEY_LEN |-> 0]

MPL_METADATA ==
    << 11, 112, 101, 177, 227, 209, 124, 69, 56, 157, 82, 127, 107, 4, 195, 205, 88, 184, 108, 115,
       26, 160, 253, 181, 73, 182, 209, 188, 3, 248, 41, 70 >>

UNINIT == "RabbitMQ plugin not initialized yet!"

\* two more well-formed keys and a byte slice that is not a key
K1 == [i \in 1..KEY_LEN |-> 1]
K2 == [i \in 1..KEY_LEN |-> 2]
BadKey == <<9, 9, 9>>

\* try_from that takes the default key for a slice of another length
try_into_or_default(slice) == IF Len(slice) = KEY_LEN THEN Some(slice) ELSE Some(system_program_id)

\* <[u8; 32]>::try_from(&[u8]) : succeeds on slices of exactly 32 bytes
try_into(slice) == IF Len(slice) = KEY_LEN THEN Some(slice) ELSE None

\* Pubkey::from_str on the text forms the configurations below use
Pubkey_from_str(s) ==
    CASE s = "11111111111111111111111111111111" -> Some(system_program_id)
      [] s = "metaqbxxUerdq28cj1RbAWkYQm3ybzjb6a8bt518x1s" -> Some(MPL_METADATA)
      [] s = "4vJ9JU1bJJE96FWSJKvHsmmFADCg4gpZQff4P3bkLKi" -> Some(K1)
      [] s = "8qbHbw2BbbTHBW1sbeqakYXVKRQM8Ne7pLK7m6CVfeR" -> Some(K2)
      [] OTHER -> None

\* Pubkey::to_string
Pubkey_to_string(k) ==
    CASE k = system_program_id -> "11111111111111111111111111111111"
      [] k = MPL_METADATA -> "metaqbxxUerdq28cj1RbAWkYQm3ybzjb6a8bt518x1s"
      [] k = K1 -> "4vJ9JU1bJJE96FWSJKvHsmmFADCg4gpZQff4P3bkLKi"
      [] k = K2 -> "8qbHbw2BbbTHBW1sbeqakYXVKRQM8Ne7pLK7m6CVfeR"

\* ------------------------------------------------------------------ selectors

\* AccountSelector::from_config : every owner must parse
AccountSelector_from_config(config) ==
    IF \E s \in config.owners : Pubkey_from_str(s) = None
    THEN None
    ELSE Some([ owners        |-> { unwrap(Pubkey_from_str(s)) : s \in config.owners },
                startup       |-> config.startup,
                deletion      |-> config.deletion,
                with_offchain |-> config.with_offchain ])

\* is_selected without the deletion rule
is_selected_no_deletion(self, acct, is_startup) ==
    /\ (IF self.startup = None THEN TRUE ELSE is_startup = unwrap(self.startup))
    /\ (Cardinality(self.owners) = 0 \/ acct.owner \in self.owners)

\* is_selected with the owner test of an empty allowlist left out
is_selected_owners_only(self, acct, is_startup) ==
    IF /\ self.deletion
       /\ acct.lamports = 0
       /\ Len(acct.data) = 0
       /\ acct.owner = system_program_id
    THEN TRUE
    ELSE /\ (IF self.startup = None THEN TRUE ELSE is_startup = unwrap(self.startup))
         /\ acct.owner \in self.owners

\* is_selected with the startup filter read as "startup updates only"
is_selected_startup_only(self, acct, is_startup) ==
    IF /\ self.deletion
       /\ acct.lamports = 0
       /\ Len(acct.data) = 0
       /\ acct.owner = system_program_id
    THEN TRUE
    ELSE /\ (IF self.startup = None THEN TRUE ELSE is_startup)
         /\ (Cardinality(self.owners) = 0 \/ acct.owner \in self.owners)

is_selected(self, acct, is_startup) ==
    IF /\ self.deletion
       /\ acct.lamports = 0
       /\ Len(acct.data) = 0
       /\ acct.owner = system_program_id
    THEN TRUE
    ELSE /\ (IF self.startup = None THEN TRUE ELSE is_startup = unwrap(self.startup))
         /\ (Cardinality(self.owners) = 0 \/ acct.owner \in self.owners)

\* is_selected_2 without the deletion rule
is_selected_2_no_deletion(self, acct, is_startup) ==
    /\ (IF self.startup = None THEN TRUE ELSE is_startup = unwrap(self.startup))
    /\ (Cardinality(self.owners) = 0 \/ acct.owner \in self.owners)

is_selected_2(self, acct, is_startup) ==
    IF /\ self.deletion
       /\ acct.lamports = 0
       /\ Len(acct.data) = 0
       /\ acct.owner = system_program_id
    THEN TRUE
    ELSE /\ (IF self.startup = None THEN TRUE ELSE is_startup = unwrap(self.startup))
         /\ (Cardinality(self.owners) = 0 \/ acct.owner \in self.owners)

\* with_offchain that takes an absent flag for a set one
with_offchain_unless_false(self) == self.with_offchain # Some(FALSE)

with_offchain(self) == is_some(self.with_offchain) /\ unwrap(self.with_offchain)

\* from_config that leaves out the program keys that do not parse
TransactionSelector_from_config_skip(programs) ==
    Some([ programs |-> { unwrap(Pubkey_from_str(s)) :
                            s \in { t \in programs : Pubkey_from_str(t) # None } } ])

\* TransactionSelector::from_config : every program key must parse
TransactionSelector_from_config(programs) ==
    IF \E s \in programs : Pubkey_from_str(s) = None
    THEN None
    ELSE Some([ programs |-> { unwrap(Pubkey_from_str(s)) : s \in programs } ])

is_empty(self) == self.programs = {}

TransactionSelector_is_selected(self, pgm) == pgm \in self.programs

\* is_selected_in_range that asks for every key to be in the allowlist
is_selected_in_range_all(self, pgms) ==
    \A i \in 1..Len(pgms) : TransactionSelector_is_selected(self, pgms[i])

\* is_selected_in_range that looks at the first key only
is_selected_in_range_first(self, pgms) ==
    pgms # <<>> /\ TransactionSelector_is_selected(self, Head(pgms))

RECURSIVE is_selected_in_range(_, _)
is_selected_in_range(self, pgms) ==
    IF pgms = <<>> THEN FALSE
    ELSE IF TransactionSelector_is_selected(self, Head(pgms)) THEN TRUE
    ELSE is_selected_in_range(self, Tail(pgms))

\* ------------------------------------------------------------------ text

\* is position i of bytes a byte within [lo, hi]
Cont(bytes, i, lo, hi) == i >= 1 /\ i <= Len(bytes) /\ bytes[i] >= lo /\ bytes[i] <= hi

\* continuation bytes a lead byte asks for (0: not a lead byte)
Need(b) ==
    IF b >= 194 /\ b <= 223 THEN 1
    ELSE IF b >= 224 /\ b <= 239 THEN 2
    ELSE IF b >= 240 /\ b <= 244 THEN 3
    ELSE 0

\* core::str::from_utf8 accepts bytes: every byte is ASCII, or a lead byte followed by
\* its continuation bytes (the first one in the range that excludes overlong forms,
\* surrogates and code points above U+10FFFF), or a continuation byte of such a lead
utf8_valid(bytes) ==
    \A i \in 1..Len(bytes) :
        LET b == bytes[i] IN
        \/ b < 128
        \/ /\ b >= 128 /\ b <= 191
           /\ \E k \in 1..3 :
                 /\ i - k >= 1
                 /\ Need(bytes[i - k]) >= k
                 /\ \A j \in 1..(k - 1) : Cont(bytes, i - j, 128, 191)
        \/ /\ Need(b) >= 1
           /\ Cont(bytes, i + 1,
                   IF b = 224 THEN 160 ELSE IF b = 240 THEN 144 ELSE 128,
                   IF b = 237 THEN 159 ELSE IF b = 244 THEN 143 ELSE 191)
           /\ \A j \in 2..Need(b) : Cont(bytes, i + j, 128, 191)

\* from_utf8 that takes every byte sequence for text
from_utf8_unchecked(bytes) == Some(bytes)

\* str::from_utf8 : the text (kept as its bytes) or an error
from_utf8(bytes) == IF utf8_valid(bytes) THEN Some(bytes) ELSE None

\* ------------------------------------------------------------------ messages

ExchangeType == {"Account", "Transaction", "Metadata", "NftData", "Slot"}

Message_AccountUpdate(account) == [variant |-> "AccountUpdate", payload |-> account]
Message_MetadataNotify(metadata) == [variant |-> "MetadataNotify", payload |-> metadata]
Message_TransactionNotify(transaction) == [variant |-> "TransactionNotify", payload |-> transaction]
Message_NftOffChainDataNotify(data) == [variant |-> "NftOffChainDataNotify", payload |-> data]
Message_FinalizedSlotNotify(slot) == [variant |-> "FinalizedSlotNotify", payload |-> slot]

\* solana SanitizedMessage::account_keys : static keys, then the loaded addresses of a V0 message
account_keys(message) ==
    IF message.tag = "Legacy" THEN message.account_keys
    ELSE message.account_keys \o message.loaded_addresses.writable
                              \o message.loaded_addresses.readonly

\* From<solana_program::message::SanitizedMessage> for SanitizedMessage
SanitizedMessage_from(sm) ==
    IF sm.tag = "Legacy"
    THEN [ tag |-> "Legacy",
           header |-> sm.header,
           account_keys |-> sm.account_keys,
           recent_blockhash |-> sm.recent_blockhash,
           instructions |-> sm.instructions ]
    ELSE [ tag |-> "V0",
           message |-> [ header |-> sm.header,
                         account_keys |-> sm.account_keys,
                         recent_blockhash |-> sm.recent_blockhash,
                         instructions |-> sm.instructions,
                         address_table_lookups |-> sm.address_table_lookups ],
           loaded_addresses |-> [ writable |-> sm.loaded_addresses.writable,
                                  readonly |-> sm.loaded_addresses.readonly ] ]

\* From<solana_sdk::transaction::SanitizedTransaction> for SanitizedTransaction
SanitizedTransaction_from(st) ==
    [ message           |-> SanitizedMessage_from(st.message),
      message_hash      |-> st.message_hash,
      is_simple_vote_tx |-> st.is_simple_vote_tx,
      signatures        |-> st.signatures ]

new_from_replica_transaction_info(rti, slot) ==
    [ signature        |-> rti.signature,
      is_vote          |-> rti.is_vote,
      slot             |-> slot,
      transaction      |-> SanitizedTransaction_from(rti.transaction),
      transaction_meta |-> rti.transaction_status_meta ]

\* serde_json::to_string(rewards) : the text, or an error the encoder reports
serde_json_to_string(rewards) ==
    IF ~rewards.encodable THEN None
    ELSE Some(IF rewards.list = <<>> THEN "[]" ELSE "[r1]")

\* new_from_replica_block_info with the slot standing in for a missing block height
new_from_replica_block_info_height(rbi) ==
    [ slot         |-> rbi.slot,
      blockhash    |-> rbi.blockhash,
      rewards      |-> unwrap_or(serde_json_to_string(rbi.rewards), ""),
      block_time   |-> unwrap_or(rbi.block_time, 0),
      block_height |-> unwrap_or(rbi.block_height, rbi.slot) ]

new_from_replica_block_info(rbi) ==
    LET rewards      == unwrap_or(serde_json_to_string(rbi.rewards), "")
        block_time   == unwrap_or(rbi.block_time, 0)
        block_height == unwrap_or(rbi.block_height, 0)
    IN  [ slot         |-> rbi.slot,
          blockhash    |-> rbi.blockhash,
          rewards      |-> rewards,
          block_time   |-> block_time,
          block_height |-> block_height ]

\* ------------------------------------------------------------------ results

Ok == [kind |-> "Ok"]
OkValue(v) == [kind |-> "Ok", value |-> v]
\* an anyhow::Error raised inside an entry point's closure
AnyhowErr(msg) == [kind |-> "Err", msg |-> msg]
\* the entry point unwinds into the host
Panic(msg) == [kind |-> "panic", msg |-> msg]
PluginError(kind, msg) == [kind |-> kind, msg |-> msg]

custom_err(e) == PluginError("Custom", e.msg)

\* spawn that runs the unit up to its read guard before it returns
Unit_started(msg, exchange_type) == [msg |-> msg, exchange_type |-> exchange_type, pc |-> "reading"]

\* Inner::spawn : a dispatch unit that will run Sender::send(msg, exchange_type)
Unit(msg, exchange_type) == [msg |-> msg, exchange_type |-> exchange_type, pc |-> "spawned"]

\* what an entry point's closure did: its result and the units it spawned, in order
Done(ret, spawned) == [ret |-> ret, spawned |-> spawned]

\* Result::map_err(custom_err) on what the closure returned
map_err(r) == Done(IF r.ret.kind = "Err" THEN custom_err(r.ret) ELSE r.ret, r.spawned)

\* with_inner : the closure's result r on a loaded plugin, else the uninit error
with_inner(uninit, r) ==
    IF inner = None
    THEN Done(uninit, <<>>)
    ELSE map_err(r)

\* ------------------------------------------------------------------ update_account

\* offset of the uri in a MetadataV1 account and the bytes read from it
URI_START == 1 + 32 + 32 + 4 + 32 + 4 + 10 + 4
URI_LEN == 200
METADATA_V1 == 4

update_account_V0_0_1(this, acct, slot, is_startup) ==
    IF ~is_selected(this.acct_sel, acct, is_startup) THEN Done(Ok, <<>>)
    ELSE IF try_into(acct.pubkey) = None THEN Done(AnyhowErr("TryFromSliceError"), <<>>)
    ELSE IF try_into(acct.owner) = None THEN Done(AnyhowErr("TryFromSliceError"), <<>>)
    ELSE
    LET key == unwrap(try_into(acct.pubkey))
        owner == unwrap(try_into(acct.owner))
        msg_data == [ key           |-> key,
                      lamports      |-> acct.lamports,
                      owner         |-> owner,
                      executable    |-> acct.executable,
                      rent_epoch    |-> acct.rent_epoch,
                      data          |-> acct.data,
                      write_version |-> acct.write_version,
                      slot          |-> slot,
                      is_startup    |-> is_startup ]
        first == << Unit(Message_AccountUpdate(msg_data), "Account") >>
        start == URI_START
        end == start + URI_LEN
    IN  IF ~(with_offchain(this.acct_sel) /\ acct.owner = MPL_METADATA) THEN Done(Ok, first)
        ELSE IF Len(acct.data) = 0 THEN Done(Panic("index out of bounds"), first)
        ELSE IF acct.data[1] # METADATA_V1 THEN Done(Ok, first)
        ELSE IF end > Len(acct.data) THEN Done(Panic("range end index out of range"), first)
        ELSE LET uri == from_utf8(SubSeq(acct.data, start + 1, end))
             IN  IF uri = None THEN Done(Ok, first)
                 ELSE Done(Ok, first \o
                        << Unit(Message_NftOffChainDataNotify(
                                    [ pubkey     |-> Pubkey_to_string(key),
                                      uri        |-> unwrap(uri),
                                      slot       |-> slot,
                                      is_startup |-> is_startup ]), "NftData") >>)

update_account_V0_0_2(this, acct, slot, is_startup) ==
    IF ~is_selected_2(this.acct_sel, acct, is_startup) THEN Done(Ok, <<>>)
    ELSE IF try_into(acct.pubkey) = None THEN Done(AnyhowErr("TryFromSliceError"), <<>>)
    ELSE IF try_into(acct.owner) = None THEN Done(AnyhowErr("TryFromSliceError"), <<>>)
    ELSE
    LET key == unwrap(try_into(acct.pubkey))
        owner == unwrap(try_into(acct.owner))
        msg_data == [ key           |-> key,
                      lamports      |-> acct.lamports,
                      owner         |-> owner,
                      executable    |-> acct.executable,
                      rent_epoch    |-> acct.rent_epoch,
                      data          |-> acct.data,
                      write_version |-> acct.write_version,
                      slot          |-> slot,
                      is_startup    |-> is_startup ]
        first == << Unit(Message_AccountUpdate(msg_data), "Account") >>
        start == URI_START
        end == start + URI_LEN
    IN  IF ~(with_offchain(this.acct_sel) /\ acct.owner = MPL_METADATA) THEN Done(Ok, first)
        ELSE IF Len(acct.data) = 0 THEN Done(Panic("index out of bounds"), first)
        ELSE IF acct.data[1] # METADATA_V1 THEN Done(Ok, first)
        ELSE IF end > Len(acct.data) THEN Done(Panic("range end index out of range"), first)
        ELSE LET uri == from_utf8(SubSeq(acct.data, start + 1, end))
             IN  IF uri = None THEN Done(Ok, first)
                 ELSE Done(Ok, first \o
                        << Unit(Message_NftOffChainDataNotify(
                                    [ pubkey     |-> Pubkey_to_string(key),
                                      uri        |-> unwrap(uri),
                                      slot       |-> slot,
                                      is_startup |-> is_startup ]), "NftData") >>)

\* update_account that stamps every message with slot 0
update_account_body_slot_0(this, account, slot, is_startup) ==
    IF account.version = "V0_0_1"
    THEN update_account_V0_0_1(this, account.info, 0, is_startup)
    ELSE update_account_V0_0_2(this, account.info, 0, is_startup)

\* update_account that does not spawn the AccountUpdate
update_account_body_off_chain_only(this, account, slot, is_startup) ==
    LET r == IF account.version = "V0_0_1"
             THEN update_account_V0_0_1(this, account.info, slot, is_startup)
             ELSE update_account_V0_0_2(this, account.info, slot, is_startup)
    IN  Done(r.ret, SelectSeq(r.spawned, LAMBDA u : u.msg.variant # "AccountUpdate"))

\* the closure update_account passes to with_inner
update_account_body(this, account, slot, is_startup) ==
    IF account.version = "V0_0_1"
    THEN update_account_V0_0_1(this, account.info, slot, is_startup)
    ELSE update_account_V0_0_2(this, account.info, slot, is_startup)

\* ------------------------------------------------------------------ other entry points

\* update_slot_status that takes every status but Processed for a root
update_slot_status_body_confirmed(this, slot, parent, status) ==
    IF status # "Processed"
    THEN Done(Ok, << Unit(Message_FinalizedSlotNotify(slot), "Slot") >>)
    ELSE Done(Ok, <<>>)

update_slot_status_body(this, slot, parent, status) ==
    IF status = "Rooted"
    THEN Done(Ok, << Unit(Message_FinalizedSlotNotify(slot), "Slot") >>)
    ELSE Done(Ok, <<>>)

\* notify_transaction without the test of the account keys
notify_transaction_body_no_selector(this, transaction, slot) ==
    IF transaction.version = "V0_0_1"
    THEN LET tx == transaction.info
         IN  IF tx.transaction_status_meta.status.kind = "Err" THEN Done(Ok, <<>>)
             ELSE Done(Ok, << Unit(Message_TransactionNotify(
                                       new_from_replica_transaction_info(tx, slot)),
                                   "Transaction") >>)
    ELSE Done(Ok, <<>>)

\* notify_transaction without the test of the transaction's status
notify_transaction_body_no_status(this, transaction, slot) ==
    IF transaction.version = "V0_0_1"
    THEN LET tx == transaction.info
         IN  IF ~is_selected_in_range(this.tx_sel, account_keys(tx.transaction.message))
             THEN Done(Ok, <<>>)
             ELSE Done(Ok, << Unit(Message_TransactionNotify(
                                       new_from_replica_transaction_info(tx, slot)),
                                   "Transaction") >>)
    ELSE Done(Ok, <<>>)

notify_transaction_body(this, transaction, slot) ==
    IF transaction.version = "V0_0_1"
    THEN LET tx == transaction.info
         IN  IF tx.transaction_status_meta.status.kind = "Err" THEN Done(Ok, <<>>)
             ELSE IF ~is_selected_in_range(this.tx_sel, account_keys(tx.transaction.message))
                  THEN Done(Ok, <<>>)
             ELSE Done(Ok, << Unit(Message_TransactionNotify(
                                       new_from_replica_transaction_info(tx, slot)),
                                   "Transaction") >>)
    ELSE Done(Ok, <<>>)

notify_block_metadata_body(this, block_info) ==
    Done(Ok, << Unit(Message_MetadataNotify(new_from_replica_block_info(block_info.info)),
                     "Metadata") >>)

\* ------------------------------------------------------------------ inputs

Slots == {1, 2}

\* text forms of keys as they stand in a configuration file
SYS_TXT == "11111111111111111111111111111111"
MPL_TXT == "metaqbxxUerdq28cj1RbAWkYQm3ybzjb6a8bt518x1s"
K1_TXT == "4vJ9JU1bJJE96FWSJKvHsmmFADCg4gpZQff4P3bkLKi"
K2_TXT == "8qbHbw2BbbTHBW1sbeqakYXVKRQM8Ne7pLK7m6CVfeR"
BAD_TXT == "not-a-key"

\* a 200-byte ASCII uri; one whose last byte opens a two-byte character; one with a
\* two-byte character inside
UriAscii == [i \in 1..URI_LEN |-> 97 + (i % 26)]
UriCut == [i \in 1..URI_LEN |-> IF i = URI_LEN THEN 195 ELSE 97 + (i % 26)]
UriWide == [i \in 1..URI_LEN |-> IF i = 1 THEN 195 ELSE IF i = 2 THEN 169 ELSE 97 + (i % 26)]

\* account data: a version byte, the fields before the uri, the uri, trailing bytes
MetadataBuf(version, uri, tail) == <<version>> \o [i \in 1..(URI_START - 1) |-> 7] \o uri \o tail

DataOk == MetadataBuf(METADATA_V1, UriAscii, <<169, 1, 2>>)
DataWide == MetadataBuf(METADATA_V1, UriWide, <<>>)
DataCut == MetadataBuf(METADATA_V1, UriCut, <<169, 1, 2>>)
DataShort == SubSeq(DataOk, 1, URI_START + URI_LEN - 1)
DataOther == MetadataBuf(1, UriAscii, <<>>)

ReplicaAccountInfo(pubkey, lamports, owner, executable, rent_epoch, data, write_version) ==
    [ pubkey |-> pubkey, lamports |-> lamports, owner |-> owner, executable |-> executable,
      rent_epoch |-> rent_epoch, data |-> data, write_version |-> write_version ]

\* ReplicaAccountInfoV2 : the same fields and the signature of the writing transaction
ReplicaAccountInfoV2(info, txn_signature) ==
    [ pubkey |-> info.pubkey, lamports |-> info.lamports, owner |-> info.owner,
      executable |-> info.executable, rent_epoch |-> info.rent_epoch, data |-> info.data,
      write_version |-> info.write_version, txn_signature |-> txn_signature ]

\* accounts the host reports: a tombstone, a plain account, metadata accounts, malformed keys
AccountInfos ==
    { ReplicaAccountInfo(K2, 0, system_program_id, FALSE, 0, <<>>, 1),
      ReplicaAccountInfo(K2, 1, K1, TRUE, 3, <<5>>, 2),
      ReplicaAccountInfo(BadKey, 1, K1, FALSE, 0, <<5>>, 1),
      ReplicaAccountInfo(K2, 1, BadKey, FALSE, 0, <<5>>, 1) }
    \cup { ReplicaAccountInfo(K2, 1, MPL_METADATA, TRUE, 3, d, 2) :
             d \in {<<>>, DataOk, DataCut, DataShort, DataOther} }
    \cup { ReplicaAccountInfo(BadKey, 1, MPL_METADATA, FALSE, 0, d, 1) : d \in {DataOk, DataCut} }

ReplicaAccountInfoVersions ==
    { [version |-> "V0_0_1", info |-> a] : a \in AccountInfos }
    \cup { [version |-> "V0_0_2", info |-> ReplicaAccountInfoV2(a, Some("sig1"))] :
             a \in AccountInfos }

\* solana_program CompiledInstruction of the host's messages
Instruction == [program_id_index |-> 1, accounts |-> <<0>>, data |-> <<2, 0>>]

\* solana_program legacy::Message over the account keys ks
LegacyMessage(ks) ==
    [ tag |-> "Legacy",
      header |-> [ num_required_signatures |-> 1, num_readonly_signed_accounts |-> 0,
                  num_readonly_unsigned_accounts |-> 1 ],
      account_keys |-> ks, recent_blockhash |-> "hash0", instructions |-> <<Instruction>> ]

\* solana_program v0::LoadedMessage : a v0 message with one lookup and the addresses it loaded
LoadedMessage(ks, writable, readonly) ==
    [ tag |-> "V0",
      header |-> [ num_required_signatures |-> 1, num_readonly_signed_accounts |-> 0,
                  num_readonly_unsigned_accounts |-> 1 ],
      account_keys |-> ks, recent_blockhash |-> "hash0", instructions |-> <<Instruction>>,
      address_table_lookups |->
          << [account_key |-> K1, writable_indexes |-> <<>>, readonly_indexes |-> <<0>>] >>,
      loaded_addresses |-> [writable |-> writable, readonly |-> readonly] ]

\* messages of the host's transactions
SanitizedMessages ==
    { LegacyMessage(ks) : ks \in {<<>>, <<K2>>, <<K2, K1>>} }
    \cup { LoadedMessage(<<K2>>, <<>>, <<K1>>) }

ReplicaTransactionInfo(m, st) ==
    [ signature |-> "sig1", is_vote |-> m.tag = "V0",
      transaction |-> [ message |-> m, message_hash |-> "hash1",
                        is_simple_vote_tx |-> m.tag = "V0", signatures |-> <<"sig1">> ],
      transaction_status_meta |->
          [ status |-> st, fee |-> 5000, pre_balances |-> <<9000, 0>>,
            post_balances |-> <<4000, 0>>, inner_instructions |-> None,
            log_messages |-> Some(<<"Program log: ok">>), pre_token_balances |-> None,
            post_token_balances |-> None, rewards |-> Some(<<>>) ] ]

\* every message with an ok status, and a failed transaction that names K1
ReplicaTransactionInfos ==
    { ReplicaTransactionInfo(m, [kind |-> "Ok"]) : m \in SanitizedMessages }
    \cup { ReplicaTransactionInfo(LegacyMessage(<<K2, K1>>),
                                  [kind |-> "Err", err |-> "AccountInUse"]) }

ReplicaTransactionInfoVersions ==
    { [version |-> v, info |-> t] : v \in {"V0_0_1", "V0_0_2"}, t \in ReplicaTransactionInfos }

\* the transaction notifications of the host: both versions, the first at every slot
TransactionNotifications ==
    { <<t, slot>> \in ReplicaTransactionInfoVersions \X Slots :
        t.version = "V0_0_1" \/ slot = 1 }

\* the slot status notifications of the host
SlotNotifications ==
    { <<slot, t[1], t[2]>> :
        slot \in Slots,
        t \in { <<None, "Rooted">>, <<Some(0), "Rooted">>, <<None, "Processed">>,
                 <<Some(0), "Confirmed">> } }

\* rewards of a block, and whether the text encoder takes them
Rewards == { [list |-> <<"r1">>, encodable |-> TRUE], [list |-> <<"r1">>, encodable |-> FALSE] }

ReplicaBlockInfoVersions ==
    { [ version |-> "V0_0_1",
        info |-> [ slot |-> t[1], blockhash |-> t[2], rewards |-> rw,
                   block_time |-> t[3], block_height |-> t[4] ] ] :
        rw \in Rewards,
        t \in { <<1, "hashA", None, Some(42)>>, <<2, "hashB", Some(-3), None>> } }

\* the slot a notification of an account update carries
SlotOf(is_startup) == IF is_startup THEN 1 ELSE 2

\* KafkaTopics : the topic of every kind of message, as the configuration names them
KafkaTopics ==
    [ accounts           |-> "geyser.accounts",
      transactions       |-> "geyser.transactions",
      block_metadata     |-> "geyser.block_metadata",
      nft_off_chain_data |-> "geyser.nft_off_chain_data",
      finalized_slots    |-> "geyser.finalized_slots" ]

\* Config : the topics, the account filter and the transaction filter of a configuration file
Config(owners, startup, deletion, offchain, programs) ==
    [ readable |-> TRUE,
      kafka_topics |-> KafkaTopics,
      accounts |-> [ owners |-> owners, startup |-> startup, deletion |-> deletion,
                     with_offchain |-> offchain ],
      transaction_programs |-> programs ]

Configs ==
    { Config({}, None, FALSE, None, {}),
      Config({}, None, TRUE, Some(TRUE), {K1_TXT}),
      Config({K1_TXT}, Some(FALSE), FALSE, Some(FALSE), {K1_TXT, K2_TXT}),
      Config({MPL_TXT, K1_TXT}, Some(TRUE), TRUE, Some(TRUE), {}),
      Config({BAD_TXT, K1_TXT}, None, FALSE, None, {}),
      Config({}, None, FALSE, None, {K1_TXT, BAD_TXT}),
      [ readable |-> FALSE ] }

\* what the environment lets on_load do: build the runtime, create the producer
Envs == { [rt |-> TRUE, producer |-> TRUE], [rt |-> FALSE, producer |-> TRUE],
          [rt |-> TRUE, producer |-> FALSE] }

\* ------------------------------------------------------------------ the plugin

NoCall == [op |-> "none", ret |-> Ok, spawned |-> <<>>]

\* the host is alive: no entry point has unwound into it
HostRunning == call.ret.kind # "panic"

\* the runtime can take the units a notification spawns
Room(spawned) == Len(tasks) + Len(spawned) <= MaxPending

\* Config::read, Config::into_parts, the runtime and the producer, in this order
on_load_result(cfg, env) ==
    IF ~cfg.readable THEN [ret |-> PluginError("Custom", "Failed to open config file"), inner |-> None]
    ELSE LET acct == AccountSelector_from_config(cfg.accounts)
             ins == TransactionSelector_from_config(cfg.transaction_programs)
         IN  IF acct = None
             THEN [ret |-> PluginError("Custom", "Failed to create account selector"), inner |-> None]
             ELSE IF ins = None
             THEN [ret |-> PluginError("Custom", "Failed to create instruction selector"), inner |-> None]
             ELSE IF ~env.rt
             THEN [ret |-> PluginError("Custom", "runtime"), inner |-> None]
             ELSE IF ~env.producer
             THEN [ret |-> PluginError("Custom", "producer"), inner |-> None]
             ELSE [ ret |-> Ok,
                    inner |-> Some([ producer |-> [topics |-> cfg.kafka_topics],
                                     acct_sel |-> unwrap(acct),
                                     tx_sel   |-> unwrap(ins) ]) ]

on_load(cfg, env) ==
    /\ HostRunning
    /\ inner = None
    /\ LET r == on_load_result(cfg, env)
       IN  /\ inner' = IF r.ret.kind = "Ok" THEN r.inner ELSE inner
           /\ call' = [op |-> "on_load", cfg |-> cfg, ret |-> r.ret, spawned |-> <<>>]
    /\ UNCHANGED <<args, res, tasks, errs, lock, wire>>

update_account(account, slot, is_startup) ==
    /\ HostRunning
    /\ LET r == with_inner(PluginError("AccountsUpdateError", UNINIT),
                           update_account_body(unwrap(inner), account, slot, is_startup))
       IN  /\ Room(r.spawned)
           /\ tasks' = tasks \o r.spawned
           /\ call' = [ op |-> "update_account", account |-> account, slot |-> slot,
                        is_startup |-> is_startup, ret |-> r.ret, spawned |-> r.spawned ]
    /\ UNCHANGED <<args, res, inner, errs, lock, wire>>

update_slot_status(slot, parent, status) ==
    /\ HostRunning
    /\ LET r == with_inner(PluginError("SlotStatusUpdateError", UNINIT),
                           update_slot_status_body(unwrap(inner), slot, parent, status))
       IN  /\ Room(r.spawned)
           /\ tasks' = tasks \o r.spawned
           /\ call' = [ op |-> "update_slot_status", slot |-> slot, parent |-> parent,
                        status |-> status, ret |-> r.ret, spawned |-> r.spawned ]
    /\ UNCHANGED <<args, res, inner, errs, lock, wire>>

notify_transaction(transaction, slot) ==
    /\ HostRunning
    /\ LET r == with_inner(PluginError("Custom", UNINIT),
                           notify_transaction_body(unwrap(inner), transaction, slot))
       IN  /\ Room(r.spawned)
           /\ tasks' = tasks \o r.spawned
           /\ call' = [ op |-> "notify_transaction", transaction |-> transaction, slot |-> slot,
                        ret |-> r.ret, spawned |-> r.spawned ]
    /\ UNCHANGED <<args, res, inner, errs, lock, wire>>

notify_block_metadata(block_info) ==
    /\ HostRunning
    /\ LET r == with_inner(PluginError("Custom", UNINIT),
                           notify_block_metadata_body(unwrap(inner), block_info))
       IN  /\ Room(r.spawned)
           /\ tasks' = tasks \o r.spawned
           /\ call' = [ op |-> "notify_block_metadata", block_info |-> block_info,
                        ret |-> r.ret, spawned |-> r.spawned ]
    /\ UNCHANGED <<args, res, inner, errs, lock, wire>>

account_data_notifications_enabled ==
    /\ HostRunning
    /\ call' = [op |-> "account_data_notifications_enabled", ret |-> OkValue(TRUE), spawned |-> <<>>]
    /\ UNCHANGED <<args, res, inner, tasks, errs, lock, wire>>

\* expect_inner unwinds on a plugin that is not loaded
transaction_notifications_enabled ==
    /\ HostRunning
    /\ call' = [ op |-> "transaction_notifications_enabled",
                 ret |-> IF inner = None THEN Panic(UNINIT)
                         ELSE OkValue(~is_empty(unwrap(inner).tx_sel)),
                 spawned |-> <<>> ]
    /\ UNCHANGED <<args, res, inner, tasks, errs, lock, wire>>

\* ------------------------------------------------------------------ compact encoder

\* FlatBufferBuilder::create_vector : the elements behind their count
create_vector(items) == [len |-> Len(items), items |-> items]

\* FlatBufferBuilder::create_string : the text behind its length
create_string(s) == [len |-> Len(s), items |-> s]

\* Vector::to_vec, &str::to_string on a stored vector or string: the counted elements
to_vec(v) == SubSeq(v.items, 1, v.len)

\* a scalar field of a table: a value equal to the field's default is not stored
push_slot(x, default) == IF x = default THEN None ELSE Some(x)

\* FlatBufferBuilder::finish and finished_data : the buffer that leads to the root table
finish(root) == [root |-> root]

\* table Pubkey { key: [ubyte] }
AccountInfoPubkey_create(fields) == [key |-> fields.key]

\* table AccountInfo of the account schema
AccountInfo_create(fields) ==
    [ pubkey        |-> fields.pubkey,
      lamports      |-> push_slot(fields.lamports, 0),
      owner         |-> fields.owner,
      executable    |-> push_slot(fields.executable, FALSE),
      rent_epoch    |-> push_slot(fields.rent_epoch, 0),
      data          |-> fields.data,
      write_version |-> push_slot(fields.write_version, 0),
      slot          |-> push_slot(fields.slot, 0),
      is_startup    |-> push_slot(fields.is_startup, FALSE) ]

\* root_as_account_info : the verified root table of a buffer
root_as_account_info(data) == Some(data.root)

\* table Metadata of the block metadata schema
Metadata_create(fields) ==
    [ slot         |-> push_slot(fields.slot, 0),
      blockhash    |-> fields.blockhash,
      rewards      |-> fields.rewards,
      block_time   |-> push_slot(fields.block_time, 0),
      block_height |-> push_slot(fields.block_height, 0) ]

\* table MetadataOffChain of the off-chain metadata schema
MetadataOffChain_create(fields) ==
    [ pubkey     |-> fields.pubkey,
      uri        |-> fields.uri,
      slot       |-> push_slot(fields.slot, 0),
      is_startup |-> push_slot(fields.is_startup, FALSE) ]

\* root_as_metadata_off_chain : the verified root table of a buffer
root_as_metadata_off_chain(data) == Some(data.root)

\* FlatBufferSerialization::serialize_account
serialize_account(account) ==
    LET pubkey_vec == create_vector(account.key)
        owner_vec == create_vector(account.owner)
        pubkey == AccountInfoPubkey_create([key |-> Some(pubkey_vec)])
        owner == AccountInfoPubkey_create([key |-> Some(owner_vec)])
        data == create_vector(account.data)
    IN  finish(AccountInfo_create(
            [ pubkey        |-> Some(pubkey),
              lamports      |-> account.lamports,
              owner         |-> Some(owner),
              executable    |-> account.executable,
              rent_epoch    |-> account.rent_epoch,
              data          |-> Some(data),
              write_version |-> account.write_version,
              slot          |-> account.slot,
              is_startup    |-> account.is_startup ]))

\* FlatBufferSerialization::serialize_metadata
serialize_metadata(metadata) ==
    LET blockhash == Some(create_string(metadata.blockhash))
        rewards == Some(create_string(metadata.rewards))
    IN  finish(Metadata_create(
            [ slot         |-> metadata.slot,
              blockhash    |-> blockhash,
              rewards      |-> rewards,
              block_time   |-> metadata.block_time,
              block_height |-> metadata.block_height ]))

\* serialize_nft_off_chain_data that leaves is_startup at the default of the table
serialize_nft_off_chain_data_no_startup(nft_off_chain_data) ==
    LET pubkey == Some(create_string(nft_off_chain_data.pubkey))
        uri == Some(create_string(nft_off_chain_data.uri))
    IN  finish(MetadataOffChain_create(
            [ pubkey     |-> pubkey,
              uri        |-> uri,
              slot       |-> nft_off_chain_data.slot,
              is_startup |-> FALSE ]))

\* FlatBufferSerialization::serialize_nft_off_chain_data
serialize_nft_off_chain_data(nft_off_chain_data) ==
    LET pubkey == Some(create_string(nft_off_chain_data.pubkey))
        uri == Some(create_string(nft_off_chain_data.uri))
    IN  finish(MetadataOffChain_create(
            [ pubkey     |-> pubkey,
              uri        |-> uri,
              slot       |-> nft_off_chain_data.slot,
              is_startup |-> nft_off_chain_data.is_startup ]))

\* the tables of the transaction schema, each made of the fields of its Args in their order
Pubkey_create(key) == [key |-> key]

Signature_create(key) == [key |-> key]

MessageHeader_create(signatures, readonly_signed, readonly_unsigned) ==
    [ num_required_signatures        |-> push_slot(signatures, 0),
      num_readonly_signed_accounts   |-> push_slot(readonly_signed, 0),
      num_readonly_unsigned_accounts |-> push_slot(readonly_unsigned, 0) ]

CompiledInstruction_create(program_id_index, accounts, data) ==
    [ program_id_index |-> push_slot(program_id_index, 0),
      accounts         |-> accounts,
      data             |-> data ]

LegacyMessage_create(header, keys, recent_blockhash, instructions) ==
    [ header           |-> header,
      account_keys     |-> keys,
      recent_blockhash |-> recent_blockhash,
      instructions     |-> instructions ]

MessageAddressTableLookup_create(account_key, writable_indexes, readonly_indexes) ==
    [ account_key      |-> account_key,
      writable_indexes |-> writable_indexes,
      readonly_indexes |-> readonly_indexes ]

MessageV0_create(header, keys, recent_blockhash, instructions, address_table_lookups) ==
    [ header                |-> header,
      account_keys          |-> keys,
      recent_blockhash      |-> recent_blockhash,
      instructions          |-> instructions,
      address_table_lookups |-> address_table_lookups ]

LoadedAddresses_create(writable, readonly) == [writable |-> writable, readonly |-> readonly]

LoadedMessageV0_create(message, loaded_addresses) ==
    [message |-> message, loaded_addresses |-> loaded_addresses]

\* table SanitizedTransaction : message is a union, message_type its tag
SanitizedTransaction_create(tag, message, message_hash, is_simple_vote_tx, signatures) ==
    [ message_type      |-> tag,
      message           |-> message,
      message_hash      |-> message_hash,
      is_simple_vote_tx |-> push_slot(is_simple_vote_tx, FALSE),
      signatures        |-> signatures ]

InnerInstructions_create(index, instructions) ==
    [index |-> push_slot(index, 0), instructions |-> instructions]

UiTokenAmount_create(ui_amount, decimals, amount, ui_amount_string) ==
    [ ui_amount        |-> push_slot(ui_amount, 0),
      decimals         |-> push_slot(decimals, 0),
      amount           |-> amount,
      ui_amount_string |-> ui_amount_string ]

TransactionTokenBalance_create(account_index, mint, ui_token_amount, owner, program_id) ==
    [ account_index   |-> push_slot(account_index, 0),
      mint            |-> mint,
      ui_token_amount |-> ui_token_amount,
      owner           |-> owner,
      program_id      |-> program_id ]

\* table Reward : reward_type is one of Fee, Rent, Staking, Voting and None
Reward_create(pubkey, lamports, post_balance, reward_type, commission) ==
    [ pubkey       |-> pubkey,
      lamports     |-> push_slot(lamports, 0),
      post_balance |-> push_slot(post_balance, 0),
      reward_type  |-> reward_type,
      commission   |-> push_slot(commission, 0) ]

TransactionStatusMeta_create(status, fee, pre, post, inner_ix, logs, pre_tb, post_tb, rewards) ==
    [ status              |-> push_slot(status, FALSE),
      fee                 |-> push_slot(fee, 0),
      pre_balances        |-> pre,
      post_balances       |-> post,
      inner_instructions  |-> inner_ix,
      log_messages        |-> logs,
      pre_token_balances  |-> pre_tb,
      post_token_balances |-> post_tb,
      rewards             |-> rewards ]

TransactionInfo_create(signature, is_vote, slot, transaction, transaction_meta) ==
    [ signature        |-> signature,
      is_vote          |-> push_slot(is_vote, FALSE),
      slot             |-> push_slot(slot, 0),
      transaction      |-> transaction,
      transaction_meta |-> transaction_meta ]

\* Result::is_ok on the status of a transaction
is_ok(status) == status.kind = "Ok"

make_pubkey(key) == Pubkey_create(Some(create_vector(key)))

make_signature(signature) == Signature_create(Some(create_vector(signature)))

\* the CompiledInstruction table of an instruction
serialize_instruction(instruction) ==
    CompiledInstruction_create(instruction.program_id_index,
                               Some(create_vector(instruction.accounts)),
                               Some(create_vector(instruction.data)))

serialize_header(header) ==
    Some(MessageHeader_create(header.num_required_signatures,
                              header.num_readonly_signed_accounts,
                              header.num_readonly_unsigned_accounts))

\* the keys of a list as a vector of Pubkey tables
serialize_keys(keys) ==
    Some(create_vector([i \in 1..Len(keys) |-> make_pubkey(keys[i])]))

\* the instructions of a list as a vector of CompiledInstruction tables
serialize_instructions(instructions) ==
    Some(create_vector([i \in 1..Len(instructions) |-> serialize_instruction(instructions[i])]))

\* the Legacy arm of the match on the message
serialize_legacy_message(legacy_message) ==
    LegacyMessage_create(serialize_header(legacy_message.header),
                         serialize_keys(legacy_message.account_keys),
                         Some(create_vector(legacy_message.recent_blockhash)),
                         serialize_instructions(legacy_message.instructions))

\* the V0 arm of the match on the message
serialize_loaded_message_v0(loaded_message_v0) ==
    LoadedMessageV0_create(
        Some(MessageV0_create(
            serialize_header(loaded_message_v0.message.header),
            serialize_keys(loaded_message_v0.message.account_keys),
            Some(create_vector(loaded_message_v0.message.recent_blockhash)),
            serialize_instructions(loaded_message_v0.message.instructions),
            Some(create_vector(
                [i \in 1..Len(loaded_message_v0.message.address_table_lookups) |->
                    MessageAddressTableLookup_create(
                        Some(make_pubkey(
                            loaded_message_v0.message.address_table_lookups[i].account_key)),
                        Some(create_vector(
                            loaded_message_v0.message.address_table_lookups[i].writable_indexes)),
                        Some(create_vector(
                            loaded_message_v0.message.address_table_lookups[i].readonly_indexes)))])))),
        Some(LoadedAddresses_create(serialize_keys(loaded_message_v0.loaded_addresses.writable),
                                    serialize_keys(loaded_message_v0.loaded_addresses.readonly))))

\* the union tag of the message
message_type(message) == IF message.tag = "Legacy" THEN "Legacy" ELSE "V0"

\* one TransactionTokenBalance : an absent ui_amount is written as 0.0
serialize_token_balance(transaction_token_balance) ==
    TransactionTokenBalance_create(
        transaction_token_balance.account_index,
        Some(create_string(transaction_token_balance.mint)),
        Some(UiTokenAmount_create(
            IF is_some(transaction_token_balance.ui_token_amount.ui_amount)
            THEN unwrap(transaction_token_balance.ui_token_amount.ui_amount)
            ELSE 0,
            transaction_token_balance.ui_token_amount.decimals,
            Some(create_string(transaction_token_balance.ui_token_amount.amount)),
            Some(create_string(transaction_token_balance.ui_token_amount.ui_amount_string)))),
        Some(create_string(transaction_token_balance.owner)),
        Some(create_string(transaction_token_balance.program_id)))

\* pre_token_balances and post_token_balances, when present
serialize_token_balances(token_balances) ==
    IF token_balances = None THEN None
    ELSE Some(create_vector([i \in 1..Len(unwrap(token_balances)) |->
                                serialize_token_balance(unwrap(token_balances)[i])]))

\* the Reward table of a reward whose absent reward_type is written as Fee
serialize_reward_fee(reward) ==
    Reward_create(Some(create_string(reward.pubkey)),
                  reward.lamports,
                  reward.post_balance,
                  IF is_some(reward.reward_type) THEN unwrap(reward.reward_type) ELSE "Fee",
                  IF is_some(reward.commission) THEN unwrap(reward.commission) ELSE 0)

\* the Reward table of a reward
serialize_reward(reward) ==
    Reward_create(Some(create_string(reward.pubkey)),
                  reward.lamports,
                  reward.post_balance,
                  IF is_some(reward.reward_type)
                  THEN CASE unwrap(reward.reward_type) = "Fee" -> "Fee"
                         [] unwrap(reward.reward_type) = "Rent" -> "Rent"
                         [] unwrap(reward.reward_type) = "Staking" -> "Staking"
                         [] unwrap(reward.reward_type) = "Voting" -> "Voting"
                  ELSE "None",
                  IF is_some(reward.commission) THEN unwrap(reward.commission) ELSE 0)

\* FlatBufferSerialization::serialize_transaction
serialize_transaction(transaction) ==
    LET tx   == transaction.transaction
        meta == transaction.transaction_meta
    IN  finish(TransactionInfo_create(
            Some(make_signature(transaction.signature)),
            transaction.is_vote,
            transaction.slot,
            Some(SanitizedTransaction_create(
                message_type(tx.message),
                Some(IF tx.message.tag = "Legacy"
                     THEN serialize_legacy_message(tx.message)
                     ELSE serialize_loaded_message_v0(tx.message)),
                Some(create_vector(tx.message_hash)),
                tx.is_simple_vote_tx,
                Some(create_vector([i \in 1..Len(tx.signatures) |->
                                       make_signature(tx.signatures[i])])))),
            Some(TransactionStatusMeta_create(
                is_ok(meta.status),
                meta.fee,
                Some(create_vector(meta.pre_balances)),
                Some(create_vector(meta.post_balances)),
                IF meta.inner_instructions = None THEN None
                ELSE Some(create_vector(
                         [i \in 1..Len(unwrap(meta.inner_instructions)) |->
                             InnerInstructions_create(
                                 unwrap(meta.inner_instructions)[i].index,
                                 serialize_instructions(
                                     unwrap(meta.inner_instructions)[i].instructions))])),
                IF meta.log_messages = None THEN None
                ELSE Some(create_vector(
                         [i \in 1..Len(unwrap(meta.log_messages)) |->
                             create_string(unwrap(meta.log_messages)[i])])),
                serialize_token_balances(meta.pre_token_balances),
                serialize_token_balances(meta.post_token_balances),
                IF meta.rewards = None THEN None
                ELSE Some(create_vector(
                         [i \in 1..Len(unwrap(meta.rewards)) |->
                             serialize_reward(unwrap(meta.rewards)[i])]))))))

\* the bytes of a scalar, least significant first, and the scalar of such bytes
RECURSIVE to_le_bytes(_, _)
to_le_bytes(n, width) ==
    IF width = 0 THEN <<>> ELSE <<n % 256>> \o to_le_bytes(n \div 256, width - 1)

RECURSIVE from_le_bytes(_)
from_le_bytes(bytes) ==
    IF bytes = <<>> THEN 0 ELSE bytes[1] + 256 * from_le_bytes(Tail(bytes))

SIZE_UOFFSET == 4
SIZE_U64 == 8

\* FlatBufferSerialization::serialize_finalized_slot : the builder pushes the slot, pads
\* to the alignment of a u64 and puts the offset of the slot in front
serialize_finalized_slot(slot) ==
    LET finalized_slot == to_le_bytes(slot, SIZE_U64)
        padding == [i \in 1..((SIZE_U64 - SIZE_UOFFSET) % SIZE_U64) |-> 0]
        rest == padding \o finalized_slot
    IN  [ bytes |-> to_le_bytes(SIZE_UOFFSET + Len(rest) - Len(finalized_slot), SIZE_UOFFSET)
                     \o rest ]

\* Pubkey::new : a key of the 32 bytes of a slice
SolanaPubkey_new(slice) ==
    IF Len(slice) = KEY_LEN THEN slice ELSE Panic("Slice must be the same length as a Pubkey")

\* deserialize_account : the NativeAccountInfo of a buffer
deserialize_account(data) ==
    LET account_info == unwrap(root_as_account_info(data))
    IN  [ pubkey        |-> SolanaPubkey_new(to_vec(unwrap(unwrap(account_info.pubkey).key))),
          lamports      |-> unwrap_or(account_info.lamports, 0),
          owner         |-> SolanaPubkey_new(to_vec(unwrap(unwrap(account_info.owner).key))),
          executable    |-> unwrap_or(account_info.executable, FALSE),
          rent_epoch    |-> unwrap_or(account_info.rent_epoch, 0),
          data          |-> to_vec(unwrap(account_info.data)),
          write_version |-> unwrap_or(account_info.write_version, 0),
          slot          |-> unwrap_or(account_info.slot, 0) ]

\* deserialize_off_chain_data
deserialize_off_chain_data(data) ==
    LET off_chain_data == unwrap(root_as_metadata_off_chain(data))
    IN  [ pubkey     |-> to_vec(unwrap(off_chain_data.pubkey)),
          uri        |-> to_vec(unwrap(off_chain_data.uri)),
          slot       |-> unwrap_or(off_chain_data.slot, 0),
          is_startup |-> unwrap_or(off_chain_data.is_startup, FALSE) ]

\* deserialize_finalized_slot : root::<u64> follows the offset at the head of the buffer
deserialize_finalized_slot(data) ==
    LET loc == from_le_bytes(SubSeq(data.bytes, 1, SIZE_UOFFSET))
    IN  IF loc + SIZE_U64 > Len(data.bytes) \/ loc % SIZE_U64 # 0
        THEN Panic("called Result::unwrap() on an Err value")
        ELSE from_le_bytes(SubSeq(data.bytes, loc + 1, loc + SIZE_U64))

\* ------------------------------------------------------------------ dispatch units

Remove(seq, i) == SubSeq(seq, 1, i - 1) \o SubSeq(seq, i + 1, Len(seq))

\* the Serialization method Sender::send encodes a message with, and the data it returns
serialize(msg) ==
    CASE msg.variant = "AccountUpdate" ->
           [method |-> "serialize_account", data |-> serialize_account(msg.payload)]
      [] msg.variant = "TransactionNotify" ->
           [method |-> "serialize_transaction", data |-> serialize_transaction(msg.payload)]
      [] msg.variant = "MetadataNotify" ->
           [method |-> "serialize_metadata", data |-> serialize_metadata(msg.payload)]
      [] msg.variant = "NftOffChainDataNotify" ->
           [ method |-> "serialize_nft_off_chain_data",
             data |-> serialize_nft_off_chain_data(msg.payload) ]
      [] msg.variant = "FinalizedSlotNotify" ->
           [method |-> "serialize_finalized_slot", data |-> serialize_finalized_slot(msg.payload)]

\* topic_of that addresses every record to the accounts topic
topic_of_accounts(topics, exchange_type) == topics.accounts

\* the topic Sender::send addresses the record to
topic_of(topics, exchange_type) ==
    CASE exchange_type = "Account" -> topics.accounts
      [] exchange_type = "Transaction" -> topics.transactions
      [] exchange_type = "Metadata" -> topics.block_metadata
      [] exchange_type = "NftData" -> topics.nft_off_chain_data
      [] exchange_type = "Slot" -> topics.finalized_slots

\* BaseRecord::to(topic).payload(&data), and what prod.send made of it
BaseRecord(topic, data, accepted) == [topic |-> topic, data |-> data, accepted |-> accepted]

\* send_read that lets the units take the guard in the order they were spawned
send_read_in_order(i) ==
    /\ i = 1
    /\ i \in 1..Len(tasks)
    /\ tasks[i].pc = "spawned"
    /\ ~lock.writer
    /\ lock' = [lock EXCEPT !.readers = @ + 1]
    /\ tasks' = [tasks EXCEPT ![i].pc = "reading"]
    /\ UNCHANGED <<args, res, inner, errs, call, wire>>

\* send_read that takes the lock in write mode
send_read_exclusive(i) ==
    /\ i \in 1..Len(tasks)
    /\ tasks[i].pc = "spawned"
    /\ ~lock.writer
    /\ lock.readers = 0
    /\ lock' = [lock EXCEPT !.writer = TRUE]
    /\ tasks' = [tasks EXCEPT ![i].pc = "reading"]
    /\ UNCHANGED <<args, res, inner, errs, call, wire>>

\* Sender::send up to the read guard on the producer: RwLock::read waits for a writer only
send_read(i) ==
    /\ i \in 1..Len(tasks)
    /\ tasks[i].pc = "spawned"
    /\ ~lock.writer
    /\ lock' = [lock EXCEPT !.readers = @ + 1]
    /\ tasks' = [tasks EXCEPT ![i].pc = "reading"]
    /\ UNCHANGED <<args, res, inner, errs, call, wire>>

\* send_submit that keeps a refused unit on the runtime to submit it again
send_submit_retry(i, accepted) ==
    /\ i \in 1..Len(tasks)
    /\ tasks[i].pc = "reading"
    /\ accepted \/ errs < MaxErrs
    /\ wire' = Some(BaseRecord(topic_of(unwrap(inner).producer.topics, tasks[i].exchange_type),
                               serialize(tasks[i].msg), accepted))
    /\ errs' = IF accepted THEN errs ELSE errs + 1
    /\ lock' = IF accepted THEN [lock EXCEPT !.readers = @ - 1] ELSE lock
    /\ tasks' = IF accepted THEN Remove(tasks, i) ELSE tasks
    /\ UNCHANGED <<args, res, inner, call>>

\* send_submit after which a refusal leaves the lock closed to the units that follow
send_submit_closing(i, accepted) ==
    /\ i \in 1..Len(tasks)
    /\ tasks[i].pc = "reading"
    /\ accepted \/ errs < MaxErrs
    /\ wire' = Some(BaseRecord(topic_of(unwrap(inner).producer.topics, tasks[i].exchange_type),
                               serialize(tasks[i].msg), accepted))
    /\ errs' = IF accepted THEN errs ELSE errs + 1
    /\ lock' = [readers |-> lock.readers - 1, writer |-> lock.writer \/ ~accepted]
    /\ tasks' = Remove(tasks, i)
    /\ UNCHANGED <<args, res, inner, call>>

\* send_submit that puts the unit back on the runtime after it handed its record over
send_submit_again(i, accepted) ==
    /\ i \in 1..Len(tasks)
    /\ tasks[i].pc = "reading"
    /\ accepted \/ errs < MaxErrs
    /\ wire' = Some(BaseRecord(topic_of(unwrap(inner).producer.topics, tasks[i].exchange_type),
                               serialize(tasks[i].msg), accepted))
    /\ errs' = IF accepted THEN errs ELSE errs + 1
    /\ lock' = [lock EXCEPT !.readers = @ - 1]
    /\ tasks' = [tasks EXCEPT ![i].pc = "spawned"]
    /\ UNCHANGED <<args, res, inner, call>>

\* Sender::send from the encoding to the end: the client takes the record or refuses it,
\* a refusal is counted, the guard is dropped and the unit is over
send_submit(i, accepted) ==
    /\ i \in 1..Len(tasks)
    /\ tasks[i].pc = "reading"
    /\ accepted \/ errs < MaxErrs
    /\ wire' = Some(BaseRecord(topic_of(unwrap(inner).producer.topics, tasks[i].exchange_type),
                               serialize(tasks[i].msg), accepted))
    /\ errs' = IF accepted THEN errs ELSE errs + 1
    /\ lock' = [lock EXCEPT !.readers = @ - 1]
    /\ tasks' = Remove(tasks, i)
    /\ UNCHANGED <<args, res, inner, call>>

\* ------------------------------------------------------------------ specification

Init ==
    /\ args = [kind |-> "none"]
    /\ res = [op |-> "none"]
    /\ inner = None
    /\ tasks = <<>>
    /\ errs = 0
    /\ call = NoCall
    /\ lock = [readers |-> 0, writer |-> FALSE]
    /\ wire = None

\* the host's next notification finds the runtime drained
Quiet == tasks = <<>>

Next ==
    \/ \E cfg \in Configs, env \in Envs : on_load(cfg, env)
    \/ \E account \in ReplicaAccountInfoVersions, is_startup \in BOOLEAN :
          Quiet /\ update_account(account, SlotOf(is_startup), is_startup)
    \/ \E n \in SlotNotifications : Quiet /\ update_slot_status(n[1], n[2], n[3])
    \/ \E n \in TransactionNotifications : Quiet /\ notify_transaction(n[1], n[2])
    \/ \E block_info \in ReplicaBlockInfoVersions : Quiet /\ notify_block_metadata(block_info)
    \/ account_data_notifications_enabled
    \/ transaction_notifications_enabled
    \/ \E i \in 1..MaxPending : send_read(i)
    \/ \E i \in 1..MaxPending, accepted \in BOOLEAN : send_submit(i, accepted)

Spec == Init /\ [][Next]_vars

\* ------------------------------------------------------------------ the runtime at work

\* a configuration that selects every account, extracts uris and allows program K1
RunConfig == Config({}, None, TRUE, Some(TRUE), {K1_TXT})

\* an account written at startup and again at slot 2, and a metadata account
RunAccountUpdates ==
    { << [version |-> "V0_0_1", info |-> ReplicaAccountInfo(K2, 1, K1, TRUE, 3, <<5>>, 2)],
         SlotOf(st), st >> : st \in BOOLEAN }
    \cup { << [version |-> "V0_0_1",
               info |-> ReplicaAccountInfo(K2, 1, MPL_METADATA, TRUE, 3, DataOk, 2)],
              1, TRUE >> }

\* a successful transaction that names K1
RunTransaction ==
    [ version |-> "V0_0_1",
      info |-> ReplicaTransactionInfo(LegacyMessage(<<K2, K1>>),
                                      [kind |-> "Ok"]) ]

RunBlock ==
    [ version |-> "V0_0_1",
      info |-> [ slot |-> 1, blockhash |-> "hashA", rewards |-> [list |-> <<"r1">>, encodable |-> TRUE],
                 block_time |-> None, block_height |-> Some(42) ] ]

\* the host notifies while earlier dispatch units are still on the runtime
RunNext ==
    \/ on_load(RunConfig, [rt |-> TRUE, producer |-> TRUE])
    \/ \E n \in RunAccountUpdates : update_account(n[1], n[2], n[3])
    \/ update_slot_status(1, None, "Rooted")
    \/ notify_transaction(RunTransaction, 1)
    \/ notify_block_metadata(RunBlock)
    \/ \E i \in 1..MaxPending : send_read(i)
    \/ \E i \in 1..MaxPending, accepted \in BOOLEAN : send_submit(i, accepted)

RunSpec == Init /\ [][RunNext]_vars

\* the host reports a write, a root, a transaction and a block once: no message of the
\* notification is still on the runtime
Fresh(spawned) ==
    \A j \in 1..Len(spawned), i \in 1..Len(tasks) : tasks[i].msg # spawned[j].msg

\* the update of the metadata account: it puts two units on the runtime
LiveAccountUpdates == { n \in RunAccountUpdates : n[1].info.owner = MPL_METADATA }

LiveNext ==
    \/ on_load(RunConfig, [rt |-> TRUE, producer |-> TRUE])
    \/ \E n \in LiveAccountUpdates :
          /\ inner # None
          /\ Fresh(update_account_body(unwrap(inner), n[1], n[2], n[3]).spawned)
          /\ update_account(n[1], n[2], n[3])
    \/ /\ inner # None
       /\ Fresh(update_slot_status_body(unwrap(inner), 1, None, "Rooted").spawned)
       /\ update_slot_status(1, None, "Rooted")
    \/ /\ inner # None
       /\ Fresh(notify_transaction_body(unwrap(inner), RunTransaction, 1).spawned)
       /\ notify_transaction(RunTransaction, 1)
    \/ /\ inner # None
       /\ Fresh(notify_block_metadata_body(unwrap(inner), RunBlock).spawned)
       /\ notify_block_metadata(RunBlock)
    \/ \E i \in 1..MaxPending : send_read(i)
    \/ \E i \in 1..MaxPending, accepted \in BOOLEAN : send_submit(i, accepted)

\* the workers of the runtime poll every unit: a unit that can take the read guard does,
\* and a unit that holds it hands its record to the client
LiveSpec ==
    /\ Init
    /\ [][LiveNext]_vars
    /\ \A i \in 1..MaxPending :
          /\ WF_vars(send_read(i))
          /\ WF_vars(\E accepted \in BOOLEAN : send_submit(i, accepted))

\* ------------------------------------------------------------------ selectors on their own

\* every account filter over three owners, and the selector from_config makes of it
AccountConfigs ==
    { [ owners |-> o, startup |-> st, deletion |-> d, with_offchain |-> w ] :
        o \in SUBSET {SYS_TXT, MPL_TXT, K1_TXT},
        st \in {None, Some(TRUE), Some(FALSE)},
        d \in BOOLEAN,
        w \in {None, Some(TRUE), Some(FALSE)} }

AccountSelectors == { unwrap(AccountSelector_from_config(c)) : c \in AccountConfigs }

Owners == {system_program_id, MPL_METADATA, K1, K2, BadKey}

SelectorAccounts ==
    { ReplicaAccountInfo(K2, l, o, FALSE, 0, d, 1) :
        l \in {0, 1}, o \in Owners, d \in {<<>>, <<4>>} }

TransactionSelectors ==
    { unwrap(TransactionSelector_from_config(p)) : p \in SUBSET {K1_TXT, K2_TXT} }

KeyLists ==
    {<<>>} \cup { <<a>> : a \in {K1, K2, MPL_METADATA} }
           \cup { <<a, b>> : a \in {K1, K2, MPL_METADATA}, b \in {K1, K2, MPL_METADATA} }

SelInputs ==
    { [ kind |-> "account", self |-> sel, acct |-> a, sig |-> sig, is_startup |-> st ] :
        sel \in AccountSelectors, a \in SelectorAccounts, sig \in {None, Some("sig1")},
        st \in BOOLEAN }
    \cup { [ kind |-> "transaction", self |-> sel, pgms |-> ks ] :
             sel \in TransactionSelectors, ks \in KeyLists }

SelInit ==
    /\ args \in SelInputs
    /\ res = [op |-> "none"]
    /\ inner = None
    /\ tasks = <<>>
    /\ errs = 0
    /\ call = NoCall
    /\ lock = [readers |-> 0, writer |-> FALSE]
    /\ wire = None

apply_is_selected ==
    /\ args.kind = "account"
    /\ res.op = "none"
    /\ res' = [op |-> "is_selected", value |-> is_selected(args.self, args.acct, args.is_startup)]
    /\ UNCHANGED <<args, inner, tasks, errs, call, lock, wire>>

apply_is_selected_2 ==
    /\ args.kind = "account"
    /\ res.op = "none"
    /\ res' = [ op |-> "is_selected_2",
                value |-> is_selected_2(args.self, ReplicaAccountInfoV2(args.acct, args.sig),
                                        args.is_startup) ]
    /\ UNCHANGED <<args, inner, tasks, errs, call, lock, wire>>

apply_is_empty ==
    /\ args.kind = "transaction"
    /\ res.op = "none"
    /\ res' = [op |-> "is_empty", value |-> is_empty(args.self)]
    /\ UNCHANGED <<args, inner, tasks, errs, call, lock, wire>>

apply_is_selected_in_range ==
    /\ args.kind = "transaction"
    /\ res.op = "none"
    /\ res' = [op |-> "is_selected_in_range", value |-> is_selected_in_range(args.self, args.pgms)]
    /\ UNCHANGED <<args, inner, tasks, errs, call, lock, wire>>

SelNext ==
    \/ apply_is_selected
    \/ apply_is_selected_2
    \/ apply_is_empty
    \/ apply_is_selected_in_range

SelSpec == SelInit /\ [][SelNext]_vars

\* ------------------------------------------------------------------ encoders on their own

\* solana_transaction_status Reward
Reward(reward_type, commission) ==
    [ pubkey |-> K1_TXT, lamports |-> 10, post_balance |-> 0, reward_type |-> reward_type,
      commission |-> commission ]

\* TransactionNotify values: both kinds of message; success and two different errors;
\* inner instructions, log messages and token balances absent and present, a token
\* balance with its ui_amount absent, 0 and 2; rewards absent, empty, every single
\* reward, and both orders of a pair
TransactionNotifies ==
    { [ signature        |-> "sig1",
        is_vote          |-> m.tag = "V0",
        slot             |-> 1,
        transaction      |-> SanitizedTransaction_from(
                                 [ message |-> m, message_hash |-> "hash1",
                                   is_simple_vote_tx |-> m.tag = "V0",
                                   signatures |-> <<"sig1">> ]),
        transaction_meta |-> [ status |-> st, fee |-> 5000, pre_balances |-> <<9000, 0>>,
                               post_balances |-> <<4000, 0>>, inner_instructions |-> ii,
                               log_messages |-> lm, pre_token_balances |-> tb,
                               post_token_balances |-> None, rewards |-> rw ] ] :
        m \in {LegacyMessage(<<K2, K1>>), LoadedMessage(<<K2>>, <<>>, <<K1>>)},
        st \in { [kind |-> "Ok"], [kind |-> "Err", err |-> "AccountInUse"],
                 [kind |-> "Err", err |-> "InsufficientFundsForFee"] },
        ii \in {None, Some(<< [index |-> 0, instructions |-> <<Instruction>>] >>)},
        lm \in {None, Some(<<"Program log: ok">>)},
        tb \in {None, Some(<<>>)}
                \cup { Some(<< [ account_index |-> 1, mint |-> "mint1",
                                 ui_token_amount |->
                                     [ ui_amount |-> ui, decimals |-> 6,
                                       amount |-> "2000000", ui_amount_string |-> "2" ],
                                 owner |-> "owner1", program_id |-> "token" ] >>) :
                         ui \in {None, Some(0), Some(2)} },
        rw \in {None, Some(<<>>)}
                \cup { Some(<<Reward(t, c)>>) :
                         t \in {None, Some("Fee"), Some("Rent"), Some("Staking"),
                                Some("Voting")},
                         c \in {None, Some(0), Some(7)} }
                \cup { Some(<<Reward(Some("Fee"), Some(7)), Reward(None, None)>>),
                       Some(<<Reward(None, None), Reward(Some("Fee"), Some(7))>>) } }

\* the arguments of the encoders: AccountUpdate values with every field at the default of
\* its table field and away from it, TransactionNotify values, NftOffChainDataNotify values,
\* and slot numbers of one, two and more bytes
SerInputs ==
    { [kind |-> "AccountUpdate", value |-> a] :
        a \in [ key : {K1, K2}, lamports : {0, 5}, owner : {K1, MPL_METADATA},
                executable : BOOLEAN, rent_epoch : {0, 3}, data : {<<>>, <<5>>, <<0, 0>>},
                write_version : {0, 2}, slot : {0, 1}, is_startup : BOOLEAN ] }
    \cup { [kind |-> "TransactionNotify", value |-> t] : t \in TransactionNotifies }
    \cup { [kind |-> "NftOffChainDataNotify", value |-> v] :
             v \in [ pubkey : {K1_TXT, K2_TXT, ""}, uri : {UriAscii, UriWide, <<>>},
                     slot : {0, 1, 2}, is_startup : BOOLEAN ] }
    \cup { [kind |-> "FinalizedSlot", value |-> n] :
             n \in {0, 1, 255, 256, 65535, 65536, 16777216, 2147483647} }

SerInit ==
    /\ args \in SerInputs
    /\ res = [op |-> "none"]
    /\ inner = None
    /\ tasks = <<>>
    /\ errs = 0
    /\ call = NoCall
    /\ lock = [readers |-> 0, writer |-> FALSE]
    /\ wire = None

apply_serialize_account ==
    /\ args.kind = "AccountUpdate"
    /\ res.op = "none"
    /\ res' = [op |-> "serialize_account", value |-> serialize_account(args.value)]
    /\ UNCHANGED <<args, inner, tasks, errs, call, lock, wire>>

apply_deserialize_account ==
    /\ res.op = "serialize_account"
    /\ res' = [op |-> "deserialize_account", value |-> deserialize_account(res.value)]
    /\ UNCHANGED <<args, inner, tasks, errs, call, lock, wire>>

apply_serialize_nft_off_chain_data ==
    /\ args.kind = "NftOffChainDataNotify"
    /\ res.op = "none"
    /\ res' = [ op |-> "serialize_nft_off_chain_data",
                value |-> serialize_nft_off_chain_data(args.value) ]
    /\ UNCHANGED <<args, inner, tasks, errs, call, lock, wire>>

apply_deserialize_off_chain_data ==
    /\ res.op = "serialize_nft_off_chain_data"
    /\ res' = [op |-> "deserialize_off_chain_data", value |-> deserialize_off_chain_data(res.value)]
    /\ UNCHANGED <<args, inner, tasks, errs, call, lock, wire>>

apply_serialize_transaction ==
    /\ args.kind = "TransactionNotify"
    /\ res.op = "none"
    /\ res' = [op |-> "serialize_transaction", value |-> serialize_transaction(args.value)]
    /\ UNCHANGED <<args, inner, tasks, errs, call, lock, wire>>

apply_serialize_finalized_slot ==
    /\ args.kind = "FinalizedSlot"
    /\ res.op = "none"
    /\ res' = [op |-> "serialize_finalized_slot", value |-> serialize_finalized_slot(args.value)]
    /\ UNCHANGED <<args, inner, tasks, errs, call, lock, wire>>

apply_deserialize_finalized_slot ==
    /\ res.op = "serialize_finalized_slot"
    /\ res' = [op |-> "deserialize_finalized_slot", value |-> deserialize_finalized_slot(res.value)]
    /\ UNCHANGED <<args, inner, tasks, errs, call, lock, wire>>

SerNext ==
    \/ apply_serialize_account
    \/ apply_deserialize_account
    \/ apply_serialize_nft_off_chain_data
    \/ apply_deserialize_off_chain_data
    \/ apply_serialize_transaction
    \/ apply_serialize_finalized_slot
    \/ apply_deserialize_finalized_slot

SerSpec == SerInit /\ [][SerNext]_vars

\* ------------------------------------------------------------------ claims on the selectors

\* the account of args is a deletion tombstone under the selector of args
Tombstone(self, acct) ==
    /\ self.deletion
    /\ acct.lamports = 0
    /\ acct.data = <<>>
    /\ acct.owner = system_program_id

\* the startup filter of the selector lets is_startup through
StartupPasses(self, is_startup) == self.startup = None \/ self.startup = Some(is_startup)

\* C1: with the deletion flag set, is_selected returns true for every account with
\* lamports = 0, empty data and the system program as owner, whatever the owner
\* allowlist, the startup filter and is_startup are.
C1_TombstoneSelected ==
    (res.op = "is_selected" /\ Tombstone(args.self, args.acct)) => res.value = TRUE

\* a tombstone was selected although the allowlist is non-empty without the system
\* program and the startup filter asks for the other value of is_startup
C1_Witness ==
    /\ res.op = "is_selected"
    /\ Tombstone(args.self, args.acct)
    /\ args.self.owners = {K1}
    /\ args.self.startup = Some(~args.is_startup)
    /\ res.value = TRUE

WithOwner(acct, o) == [acct EXCEPT !.owner = o]

\* C3 as stated: with an empty owner allowlist the result of is_selected does not depend
\* on the owner, and with a non-empty one it is true iff the owner is a member.
C3_Original ==
    res.op = "is_selected" =>
        /\ args.self.owners = {} =>
              \A o \in Owners :
                  is_selected(args.self, WithOwner(args.acct, o), args.is_startup) = res.value
        /\ args.self.owners # {} => (res.value <=> args.acct.owner \in args.self.owners)

\* C3 amended: with an empty owner allowlist the result of is_selected is the same for
\* all owners that do not make the account a deletion tombstone; with a non-empty one,
\* an account that is not a deletion tombstone and passes the startup filter is
\* selected iff its owner is a member.
C3_OwnerAllowlist ==
    res.op = "is_selected" =>
        /\ (args.self.owners = {} /\ ~Tombstone(args.self, args.acct)) =>
              \A o \in Owners :
                  ~Tombstone(args.self, WithOwner(args.acct, o)) =>
                      is_selected(args.self, WithOwner(args.acct, o), args.is_startup) = res.value
        /\ ( /\ args.self.owners # {}
             /\ ~Tombstone(args.self, args.acct)
             /\ StartupPasses(args.self, args.is_startup) ) =>
              (res.value <=> args.acct.owner \in args.self.owners)

\* an account whose owner is in a two-owner allowlist was selected under a matching
\* startup filter
C3_Witness ==
    /\ res.op = "is_selected"
    /\ args.self.owners = {K1, MPL_METADATA}
    /\ args.acct.owner = MPL_METADATA
    /\ args.self.startup = Some(args.is_startup)
    /\ res.value = TRUE

\* C5: is_selected_in_range(keys) is true iff some key of the sequence is in the
\* program allowlist; so it is false for every sequence when the allowlist is empty
\* and for the empty sequence.
C5_InRange ==
    res.op = "is_selected_in_range" =>
        /\ res.value <=> \E i \in 1..Len(args.pgms) : args.pgms[i] \in args.self.programs
        /\ args.self.programs = {} => res.value = FALSE
        /\ args.pgms = <<>> => res.value = FALSE

\* a transaction was selected by its second key alone
C5_Witness ==
    /\ res.op = "is_selected_in_range"
    /\ args.self.programs = {K1}
    /\ args.pgms = <<K2, K1>>
    /\ res.value = TRUE

\* ------------------------------------------------------------------ claims on the entry points

Loaded == inner # None

\* the fields of a ReplicaAccountInfoV2 that a ReplicaAccountInfo has too
AsV1(info) ==
    ReplicaAccountInfo(info.pubkey, info.lamports, info.owner, info.executable,
                       info.rent_epoch, info.data, info.write_version)

\* C4: a V0_0_1 account and a V0_0_2 account that agree on every field but the
\* transaction signature get the same answer from is_selected and is_selected_2, and
\* update_account returns the same result and schedules the same messages for both.
C4_SameForBothVersions ==
    (Loaded /\ call.op = "update_account") =>
        LET this == unwrap(inner)
            a1 == AsV1(call.account.info)
        IN  \A sig \in {None, Some("sig1")} :
                LET a2 == ReplicaAccountInfoV2(a1, sig) IN
                /\ is_selected(this.acct_sel, a1, call.is_startup)
                     = is_selected_2(this.acct_sel, a2, call.is_startup)
                /\ Done(call.ret, call.spawned)
                     = map_err(update_account_V0_0_1(this, a1, call.slot, call.is_startup))
                /\ Done(call.ret, call.spawned)
                     = map_err(update_account_V0_0_2(this, a2, call.slot, call.is_startup))

\* a V0_0_2 tombstone outside the owner allowlist was selected and scheduled a message
C4_Witness ==
    /\ Loaded
    /\ call.op = "update_account"
    /\ call.account.version = "V0_0_2"
    /\ Tombstone(unwrap(inner).acct_sel, call.account.info)
    /\ unwrap(inner).acct_sel.owners # {}
    /\ Len(call.spawned) = 1

\* C6: on a loaded plugin the transaction capability is true exactly when the program
\* allowlist is non-empty, and with an empty allowlist no notify_transaction call
\* schedules a TransactionNotify: none is ever among the scheduled units.
C6_EmptyAllowlistNoTransactions ==
    Loaded =>
        LET programs == unwrap(inner).tx_sel.programs IN
        /\ call.op = "transaction_notifications_enabled" => call.ret = OkValue(programs # {})
        /\ programs = {} =>
              /\ \A i \in 1..Len(tasks) : tasks[i].msg.variant # "TransactionNotify"
              /\ call.op = "notify_transaction" => call.spawned = <<>>

\* with an empty allowlist, a successful V0_0_1 transaction with two keys was notified
\* and nothing was scheduled
C6_Witness ==
    /\ Loaded
    /\ unwrap(inner).tx_sel.programs = {}
    /\ call.op = "notify_transaction"
    /\ call.transaction.version = "V0_0_1"
    /\ call.transaction.info.transaction_status_meta.status.kind = "Ok"
    /\ call.transaction.info.transaction.message.account_keys = <<K2, K1>>
    /\ call.spawned = <<>>
    /\ tasks = <<>>

\* C7: on a loaded plugin update_slot_status(N, parent, status) schedules exactly one
\* message, FinalizedSlot(N) with ExchangeType::Slot, when status is Rooted and none
\* otherwise, whatever parent is, and returns success.
C7_SlotStatus ==
    (Loaded /\ call.op = "update_slot_status") =>
        /\ call.ret = Ok
        /\ call.spawned =
              IF call.status = "Rooted"
              THEN << [ msg |-> [variant |-> "FinalizedSlotNotify", payload |-> call.slot],
                        exchange_type |-> "Slot", pc |-> "spawned" ] >>
              ELSE <<>>

\* slot 2 was rooted with a parent given and its FinalizedSlot is in the runtime
C7_Witness ==
    /\ Loaded
    /\ call.op = "update_slot_status"
    /\ call.status = "Rooted"
    /\ call.slot = 2
    /\ call.parent = Some(0)
    /\ Len(call.spawned) = 1
    /\ tasks = call.spawned

\* C8: notify_transaction schedules nothing and returns success for a transaction
\* whose status is an error, even with an account key in the program allowlist, and
\* schedules nothing for a transaction none of whose account keys is in the allowlist.
C8_TransactionRejected ==
    (Loaded /\ call.op = "notify_transaction") =>
        LET tx == call.transaction.info
            keys == account_keys(tx.transaction.message)
            programs == unwrap(inner).tx_sel.programs
        IN  /\ tx.transaction_status_meta.status.kind = "Err" =>
                  (call.spawned = <<>> /\ call.ret = Ok)
            /\ (\A i \in 1..Len(keys) : keys[i] \notin programs) => call.spawned = <<>>

\* a failed V0_0_1 transaction with a key in the allowlist was notified
C8_Witness ==
    /\ Loaded
    /\ call.op = "notify_transaction"
    /\ call.transaction.version = "V0_0_1"
    /\ call.transaction.info.transaction_status_meta.status.kind = "Err"
    /\ \E i \in 1..Len(call.transaction.info.transaction.message.account_keys) :
          call.transaction.info.transaction.message.account_keys[i]
              \in unwrap(inner).tx_sel.programs
    /\ call.spawned = <<>>
    /\ call.ret = Ok

\* C9: every transaction notification on a loaded plugin, of either version of
\* ReplicaTransactionInfoVersions, with an ok status and an account key in the program
\* allowlist schedules exactly one TransactionNotify built from the transaction and
\* the slot, with ExchangeType::Transaction.
C9_TransactionForwarded ==
    (Loaded /\ call.op = "notify_transaction") =>
        LET tx == call.transaction.info
            keys == account_keys(tx.transaction.message)
            programs == unwrap(inner).tx_sel.programs
        IN  ( /\ tx.transaction_status_meta.status.kind = "Ok"
              /\ \E i \in 1..Len(keys) : keys[i] \in programs ) =>
                call.spawned =
                    << [ msg |-> [ variant |-> "TransactionNotify",
                                   payload |-> new_from_replica_transaction_info(tx, call.slot) ],
                         exchange_type |-> "Transaction", pc |-> "spawned" ] >>

\* C10: on a loaded plugin every notify_block_metadata call returns success and
\* schedules exactly one MetadataNotify with ExchangeType::Metadata: slot and blockhash
\* are the host's, block_time and block_height are the host's or 0 when it gives none,
\* rewards is the text encoding of the host's rewards or "" when encoding fails.
C10_BlockMetadata ==
    (Loaded /\ call.op = "notify_block_metadata") =>
        LET rbi == call.block_info.info
            text == serde_json_to_string(rbi.rewards)
        IN  /\ call.ret = Ok
            /\ call.spawned =
                  << [ msg |-> [ variant |-> "MetadataNotify",
                                 payload |->
                                    [ slot         |-> rbi.slot,
                                      blockhash    |-> rbi.blockhash,
                                      rewards      |-> IF text = None THEN "" ELSE text[1],
                                      block_time   |-> IF rbi.block_time = None THEN 0
                                                       ELSE rbi.block_time[1],
                                      block_height |-> IF rbi.block_height = None THEN 0
                                                       ELSE rbi.block_height[1] ] ],
                       exchange_type |-> "Metadata", pc |-> "spawned" ] >>

\* a block at slot 2 without a height and with rewards the encoder refuses was notified
C10_Witness ==
    /\ Loaded
    /\ call.op = "notify_block_metadata"
    /\ call.block_info.info.slot = 2
    /\ call.block_info.info.block_height = None
    /\ ~call.block_info.info.rewards.encodable
    /\ Len(call.spawned) = 1
    /\ call.spawned[1].msg.payload.rewards = ""
    /\ call.spawned[1].msg.payload.block_height = 0
    /\ call.spawned[1].msg.payload.block_time = -3

\* ------------------------------------------------------------------ claims on update_account

\* the account of the host's last update_account call passes the selector
Selected ==
    IF call.account.version = "V0_0_1"
    THEN is_selected(unwrap(inner).acct_sel, call.account.info, call.is_startup)
    ELSE is_selected_2(unwrap(inner).acct_sel, call.account.info, call.is_startup)

\* positions of the units of one Message variant among the units a call spawned
UnitsOf(spawned, variant) == { i \in 1..Len(spawned) : spawned[i].msg.variant = variant }

\* the last update_account call spawned exactly one AccountUpdate: it carries the
\* notification's values and goes out with ExchangeType::Account
OneAccountUpdate ==
    LET a == call.account.info IN
    /\ Cardinality(UnitsOf(call.spawned, "AccountUpdate")) = 1
    /\ \A i \in UnitsOf(call.spawned, "AccountUpdate") :
          /\ call.spawned[i].exchange_type = "Account"
          /\ call.spawned[i].msg.payload =
                [ key |-> a.pubkey, lamports |-> a.lamports, owner |-> a.owner,
                  executable |-> a.executable, rent_epoch |-> a.rent_epoch, data |-> a.data,
                  write_version |-> a.write_version, slot |-> call.slot,
                  is_startup |-> call.is_startup ]

\* C11 as stated: every account update that passes the selector on a loaded plugin
\* schedules exactly one AccountUpdate with ExchangeType::Account that carries the
\* notification's values, and no NftOffChainDataNotify when the owner is not the
\* metadata program.
C11_Original ==
    (Loaded /\ call.op = "update_account" /\ Selected) =>
        /\ OneAccountUpdate
        /\ call.account.info.owner # MPL_METADATA =>
              UnitsOf(call.spawned, "NftOffChainDataNotify") = {}

\* C11 amended: every account update that passes the selector on a loaded plugin and
\* whose pubkey and owner are 32 bytes long schedules exactly one AccountUpdate with
\* ExchangeType::Account that carries the notification's values; no update of an
\* account whose owner is not the metadata program schedules an NftOffChainDataNotify.
C11_AccountUpdate ==
    (Loaded /\ call.op = "update_account" /\ Selected) =>
        /\ ( /\ Len(call.account.info.pubkey) = KEY_LEN
             /\ Len(call.account.info.owner) = KEY_LEN ) => OneAccountUpdate
        /\ call.account.info.owner # MPL_METADATA =>
              UnitsOf(call.spawned, "NftOffChainDataNotify") = {}

\* a startup update of an account whose owner is in the allowlist, under a startup
\* filter of true and with the off-chain flag set, scheduled its AccountUpdate alone
C11_Witness ==
    /\ Loaded
    /\ call.op = "update_account"
    /\ call.is_startup
    /\ unwrap(inner).acct_sel.startup = Some(TRUE)
    /\ with_offchain(unwrap(inner).acct_sel)
    /\ call.account.info.owner = K1
    /\ K1 \in unwrap(inner).acct_sel.owners
    /\ call.account.info.pubkey = K2
    /\ Len(call.spawned) = 1
    /\ call.spawned[1].msg.variant = "AccountUpdate"
    /\ call.spawned[1].msg.payload.slot = call.slot
    /\ tasks = call.spawned

\* the off-chain flag is set, the owner is the metadata program, the data starts with
\* the MetadataV1 tag and has at least len bytes
ExtractionConditions(len) ==
    LET a == call.account.info IN
    /\ unwrap(inner).acct_sel.with_offchain = Some(TRUE)
    /\ a.owner = MPL_METADATA
    /\ Len(a.data) >= len
    /\ a.data[1] = METADATA_V1

\* the 200 bytes of the account data from offset start on, offsets counted from 0
UriBytes(start) == [i \in 1..200 |-> call.account.info.data[start + i]]

\* the last update_account call spawned exactly one NftOffChainDataNotify with
\* ExchangeType::NftData: the given uri, the text form of the key, slot and is_startup
OneNftOffChainDataNotify(uri) ==
    /\ Cardinality(UnitsOf(call.spawned, "NftOffChainDataNotify")) = 1
    /\ \A i \in UnitsOf(call.spawned, "NftOffChainDataNotify") :
          /\ call.spawned[i].exchange_type = "NftData"
          /\ call.spawned[i].msg.payload =
                [ pubkey |-> Pubkey_to_string(call.account.info.pubkey), uri |-> uri,
                  slot |-> call.slot, is_startup |-> call.is_startup ]

\* without the flag, the metadata owner or the MetadataV1 tag nothing is extracted
NoExtractionWithout ==
    LET a == call.account.info IN
    ( \/ unwrap(inner).acct_sel.with_offchain # Some(TRUE)
      \/ a.owner # MPL_METADATA
      \/ (a.data # <<>> /\ a.data[1] # METADATA_V1) ) =>
        UnitsOf(call.spawned, "NftOffChainDataNotify") = {}

\* C12 as stated: a selected account update with the off-chain flag set, the metadata
\* program as owner, a first data byte of 4 and at least 322 bytes of data whose bytes
\* 122..322 are valid UTF-8 schedules the AccountUpdate and exactly one
\* NftOffChainDataNotify with ExchangeType::NftData, whose uri is those 200 bytes, whose
\* pubkey is the text form of the account key and whose slot and is_startup are the
\* notification's; without the flag, that owner or that first byte none is scheduled.
C12_Original ==
    (Loaded /\ call.op = "update_account" /\ Selected) =>
        /\ (ExtractionConditions(322) /\ utf8_valid(UriBytes(122))) =>
              (OneAccountUpdate /\ OneNftOffChainDataNotify(UriBytes(122)))
        /\ NoExtractionWithout

\* C12 amended: the uri is at offset 119 = 1+32+32+4+32+4+10+4. A selected account
\* update with a 32-byte pubkey, the off-chain flag set, the metadata program as owner,
\* a first data byte of 4 and at least 319 bytes of data whose bytes 119..319 are valid
\* UTF-8 schedules the AccountUpdate and exactly one NftOffChainDataNotify with
\* ExchangeType::NftData, whose uri is those 200 bytes, whose pubkey is the text form
\* of the account key and whose slot and is_startup are the notification's; without
\* the flag, that owner or that first byte none is scheduled.
C12_OffChainExtraction ==
    (Loaded /\ call.op = "update_account" /\ Selected) =>
        /\ ( /\ ExtractionConditions(319)
             /\ utf8_valid(UriBytes(119))
             /\ Len(call.account.info.pubkey) = KEY_LEN ) =>
              (OneAccountUpdate /\ OneNftOffChainDataNotify(UriBytes(119)))
        /\ NoExtractionWithout

\* a V0_0_2 metadata account with an ASCII uri at offset 119 and bytes after it
\* scheduled its AccountUpdate and then the uri under the text form of its key
C12_Witness ==
    /\ Loaded
    /\ call.op = "update_account"
    /\ call.account.version = "V0_0_2"
    /\ call.account.info.data = DataOk
    /\ Len(call.account.info.data) > 319
    /\ Len(call.spawned) = 2
    /\ call.spawned[1].msg.variant = "AccountUpdate"
    /\ call.spawned[2].msg.variant = "NftOffChainDataNotify"
    /\ call.spawned[2].msg.payload.uri = UriAscii
    /\ call.spawned[2].msg.payload.pubkey = K2_TXT
    /\ call.spawned[2].exchange_type = "NftData"

\* C13 as stated: when the extraction conditions hold and the 200 bytes at offset 122
\* are not valid UTF-8, update_account schedules no NftOffChainDataNotify, schedules
\* the AccountUpdate of the account and returns success.
C13_Original ==
    ( /\ Loaded /\ call.op = "update_account" /\ Selected
      /\ ExtractionConditions(322) /\ ~utf8_valid(UriBytes(122)) ) =>
        /\ UnitsOf(call.spawned, "NftOffChainDataNotify") = {}
        /\ OneAccountUpdate
        /\ call.ret = Ok

\* C13 amended: when the extraction conditions hold for an account update with a
\* 32-byte pubkey and the 200 bytes at offset 119 are not valid UTF-8, update_account
\* schedules no NftOffChainDataNotify, schedules the AccountUpdate of the account and
\* returns success.
C13_UriNotText ==
    ( /\ Loaded /\ call.op = "update_account" /\ Selected
      /\ ExtractionConditions(319) /\ ~utf8_valid(UriBytes(119))
      /\ Len(call.account.info.pubkey) = KEY_LEN ) =>
        /\ UnitsOf(call.spawned, "NftOffChainDataNotify") = {}
        /\ OneAccountUpdate
        /\ call.ret = Ok

\* a metadata account whose 200 bytes at offset 119 end inside a two-byte character
\* scheduled its AccountUpdate alone and the call returned success
C13_Witness ==
    /\ Loaded
    /\ call.op = "update_account"
    /\ Selected
    /\ ExtractionConditions(319)
    /\ call.account.info.data = DataCut
    /\ call.account.info.data[319] = 195
    /\ call.account.info.pubkey = K2
    /\ Len(call.spawned) = 1
    /\ call.spawned[1].msg.variant = "AccountUpdate"
    /\ call.ret = Ok

\* ------------------------------------------------------------------ claims on a plugin not loaded

\* the plugins on_load can install
LoadedInners ==
    { on_load_result(cfg, env).inner[1] :
        cfg \in { c \in Configs : on_load_result(c, [rt |-> TRUE, producer |-> TRUE]).ret = Ok },
        env \in { [rt |-> TRUE, producer |-> TRUE] } }

\* the kinds of the errors update_account returns on a loaded plugin
UpdateAccountErrorKinds ==
    { map_err(update_account_body(this, account, SlotOf(is_startup), is_startup)).ret.kind :
        this \in LoadedInners, account \in ReplicaAccountInfoVersions, is_startup \in BOOLEAN }
    \ {"Ok", "panic"}

\* the kinds of the errors the other notification entry points return on a loaded plugin
OtherErrorKinds ==
    ( { map_err(update_slot_status_body(this, n[1], n[2], n[3])).ret.kind :
          this \in LoadedInners, n \in SlotNotifications }
      \cup { map_err(notify_transaction_body(this, n[1], n[2])).ret.kind :
               this \in LoadedInners, n \in TransactionNotifications }
      \cup { map_err(notify_block_metadata_body(this, b)).ret.kind :
               this \in LoadedInners, b \in ReplicaBlockInfoVersions } )
    \ {"Ok", "panic"}

\* C14: update_account, update_slot_status, notify_transaction, notify_block_metadata
\* and the transaction capability query, called on a plugin that is not loaded, return
\* the "not initialized" failure, of a kind none of the entry point's other errors has,
\* schedule nothing and do not unwind into the host.
C14_NotInitialized ==
    ( /\ ~Loaded
      /\ call.op \in { "update_account", "update_slot_status", "notify_transaction",
                        "notify_block_metadata", "transaction_notifications_enabled" } ) =>
        /\ call.ret.kind \notin {"Ok", "panic"}
        /\ call.ret.msg = UNINIT
        /\ call.spawned = <<>>
        /\ tasks = <<>>
        /\ call.op = "update_account" => call.ret.kind \notin UpdateAccountErrorKinds
        /\ call.op # "update_account" => call.ret.kind \notin OtherErrorKinds

\* ------------------------------------------------------------------ claims on the dispatch units

\* the topic the configuration gives to a Message variant
TopicOfVariant(variant) ==
    CASE variant = "AccountUpdate" -> KafkaTopics.accounts
      [] variant = "TransactionNotify" -> KafkaTopics.transactions
      [] variant = "MetadataNotify" -> KafkaTopics.block_metadata
      [] variant = "NftOffChainDataNotify" -> KafkaTopics.nft_off_chain_data
      [] variant = "FinalizedSlotNotify" -> KafkaTopics.finalized_slots

\* the ExchangeType of a Message variant
ExchangeOfVariant(variant) ==
    CASE variant = "AccountUpdate" -> "Account"
      [] variant = "TransactionNotify" -> "Transaction"
      [] variant = "MetadataNotify" -> "Metadata"
      [] variant = "NftOffChainDataNotify" -> "NftData"
      [] variant = "FinalizedSlotNotify" -> "Slot"

\* the Message variant a Serialization method encodes
VariantOfEncoder(encoder) ==
    CASE encoder = "serialize_account" -> "AccountUpdate"
      [] encoder = "serialize_transaction" -> "TransactionNotify"
      [] encoder = "serialize_metadata" -> "MetadataNotify"
      [] encoder = "serialize_nft_off_chain_data" -> "NftOffChainDataNotify"
      [] encoder = "serialize_finalized_slot" -> "FinalizedSlotNotify"

\* C15: every record handed to the publishing client went to the topic configured for
\* the Message variant it encodes, and every dispatch unit pairs its Message variant
\* with that variant's own ExchangeType.
C15_TopicOfVariant ==
    /\ \A i \in 1..Len(tasks) :
          tasks[i].exchange_type = ExchangeOfVariant(tasks[i].msg.variant)
    /\ wire # None => wire[1].topic = TopicOfVariant(VariantOfEncoder(wire[1].data.method))

\* an NftOffChainDataNotify went to its topic while the AccountUpdate it came with is
\* still on the runtime
C15_Witness ==
    /\ wire # None
    /\ wire[1].data.method = "serialize_nft_off_chain_data"
    /\ wire[1].topic = "geyser.nft_off_chain_data"
    /\ wire[1].accepted
    /\ Len(tasks) = 1
    /\ tasks[1].msg.variant = "AccountUpdate"
    /\ tasks[1].msg.payload.owner = MPL_METADATA

\* C16: a step in which a dispatch unit ends is one submission: the unit leaves the
\* runtime and is not submitted again, the error counter goes up by exactly 1 when the
\* client refused the record and stays when it took it, the read guard is dropped and
\* what the host got from the entry point is untouched; no other step changes the
\* error counter, so it counts the refused submissions.
C16_ErrorCounter ==
    [][ /\ Len(tasks') < Len(tasks) =>
              /\ \E i \in 1..Len(tasks) : tasks' = Remove(tasks, i)
              /\ wire' # None
              /\ errs' = errs + (IF wire'[1].accepted THEN 0 ELSE 1)
              /\ lock'.readers = lock.readers - 1
              /\ call' = call
        /\ Len(tasks') >= Len(tasks) => (errs' = errs /\ wire' = wire) ]_vars

\* the client refused the AccountUpdate of an update_account call that had returned
\* success: the failure is counted and nothing is left on the runtime
C16_Witness ==
    /\ call.op = "update_account"
    /\ call.ret = Ok
    /\ Len(call.spawned) = 1
    /\ wire # None
    /\ ~wire[1].accepted
    /\ wire[1].data.method = "serialize_account"
    /\ errs = 1
    /\ tasks = <<>>

\* C17: an entry point returns once its dispatch units are scheduled and without
\* running any part of them: after its step the units are on the runtime, not started,
\* and nothing was read, submitted or counted; and no step of a dispatch unit changes
\* what the entry point returned.
C17_ReturnsBeforeUnits ==
    [][ /\ Len(tasks') > Len(tasks) =>
              /\ tasks' = tasks \o call'.spawned
              /\ \A i \in 1..Len(call'.spawned) : call'.spawned[i].pc = "spawned"
              /\ call'.ret = Ok
              /\ wire' = wire /\ errs' = errs /\ lock' = lock
        /\ (tasks' # tasks /\ Len(tasks') <= Len(tasks)) => call' = call ]_vars

\* update_account has returned success and neither of its two units has started:
\* nothing has been handed to the client yet
C17_Witness ==
    /\ call.op = "update_account"
    /\ call.ret = Ok
    /\ Len(call.spawned) = 2
    /\ tasks = call.spawned
    /\ \A i \in 1..Len(tasks) : tasks[i].pc = "spawned"
    /\ lock.readers = 0
    /\ wire = None

\* C18: no order is enforced between dispatch units: whatever else is on the runtime,
\* a unit that has not taken the read guard can take it next and a unit that holds it
\* can submit next, so any two units may publish in either order.
C18_NoOrder ==
    \A i \in 1..Len(tasks) :
        /\ tasks[i].pc = "spawned" => ENABLED send_read(i)
        /\ tasks[i].pc = "reading" => ENABLED send_submit(i, TRUE)

\* of two updates of the same account the second one, notified last, has been
\* published while the first has not even started
C18_Witness ==
    /\ call.op = "update_account"
    /\ call.slot = 2
    /\ Len(call.spawned) = 1
    /\ Len(tasks) = 1
    /\ tasks[1].pc = "spawned"
    /\ tasks[1].msg.variant = "AccountUpdate"
    /\ tasks[1].msg.payload.key = call.spawned[1].msg.payload.key
    /\ tasks[1].msg.payload.slot = 1
    /\ wire # None
    /\ wire[1].data.method = "serialize_account"
    /\ wire[1].accepted

\* C19: the producer's lock is never held or awaited in write mode, the dispatch units
\* that are between their read guard and the end of send are its readers, and a unit
\* that asks for the read guard gets it at once, whoever else holds it.
C19_ReadLockOnly ==
    /\ ~lock.writer
    /\ lock.readers = Cardinality({ i \in 1..Len(tasks) : tasks[i].pc = "reading" })
    /\ \A i \in 1..Len(tasks) : tasks[i].pc = "spawned" => ENABLED send_read(i)

\* as many dispatch units as the runtime holds have the read guard at the same time
C19_Witness ==
    /\ lock.readers = MaxPending
    /\ Len(tasks) = MaxPending
    /\ tasks[1].msg.variant # tasks[2].msg.variant

\* the messages the host's notifications put on the runtime
LiveMessages ==
    { u.msg : u \in
        UNION { { r.spawned[j] : j \in 1..Len(r.spawned) } :
                r \in { update_account_body(this, n[1], n[2], n[3]) :
                          this \in LoadedInners, n \in LiveAccountUpdates }
                   \cup { update_slot_status_body(this, 1, None, "Rooted") : this \in LoadedInners }
                   \cup { notify_transaction_body(this, RunTransaction, 1) : this \in LoadedInners }
                   \cup { notify_block_metadata_body(this, RunBlock) : this \in LoadedInners } } }

OnRuntime(msg) == \E i \in 1..Len(tasks) : tasks[i].msg = msg

\* C20: under fair scheduling of the runtime's workers every dispatch unit that has
\* been scheduled finishes: whatever message it carries and whatever became of the
\* other units, it leaves the runtime.
C20_UnitsFinish ==
    \A msg \in LiveMessages : OnRuntime(msg) ~> ~OnRuntime(msg)

\* a submission was refused and a later one was taken: nothing is left on the runtime
C20_Witness ==
    /\ errs = 1
    /\ wire # None
    /\ wire[1].accepted
    /\ tasks = <<>>
    /\ call.op = "notify_block_metadata"

\* ------------------------------------------------------------------ C21

\* the record Sender::send makes of the unit at position i, taken or refused
RecordOf(i, accepted) ==
    BaseRecord(topic_of(unwrap(inner).producer.topics, tasks[i].exchange_type),
               serialize(tasks[i].msg), accepted)

\* the step hands a record to the publishing client
Submission == wire' # wire \/ errs' # errs \/ lock'.readers < lock.readers

\* C21: delivery is at-most-once. A step that hands a record to the publishing client
\* is the one submission of one dispatch unit: the unit held the read guard, the record
\* is the encoding of its message, and the unit leaves the runtime with it, so that no
\* message is submitted twice and there are never more submissions than scheduled
\* units. Units come from entry points only: update_account schedules at most two (one
\* AccountUpdate, at most one NftOffChainDataNotify), every other entry point at most
\* one, and no other step adds a unit, changes a unit's message or starts a unit again.
C21_AtMostOnce ==
    [][ /\ Submission =>
              \E i \in 1..Len(tasks) :
                 /\ tasks[i].pc = "reading"
                 /\ tasks' = Remove(tasks, i)
                 /\ wire' # None
                 /\ wire' = Some(RecordOf(i, wire'[1].accepted))
                 /\ lock'.readers = lock.readers - 1
        /\ Len(tasks') > Len(tasks) =>
              /\ ~Submission
              /\ tasks' = tasks \o call'.spawned
              /\ IF call'.op = "update_account"
                 THEN /\ Len(call'.spawned) <= 2
                      /\ Cardinality(UnitsOf(call'.spawned, "AccountUpdate")) = 1
                      /\ Cardinality(UnitsOf(call'.spawned, "NftOffChainDataNotify")) <= 1
                      /\ \A j \in 1..Len(call'.spawned) :
                            call'.spawned[j].msg.variant
                               \in {"AccountUpdate", "NftOffChainDataNotify"}
                 ELSE Len(call'.spawned) = 1
        /\ Len(tasks') = Len(tasks) =>
              \A i \in 1..Len(tasks) :
                 /\ tasks'[i].msg = tasks[i].msg
                 /\ tasks[i].pc = "reading" => tasks'[i].pc = "reading" ]_vars

\* an update_account call scheduled two units and both have been submitted, the second
\* while a unit of a later notification was waiting
C21_Witness ==
    /\ call.op = "update_slot_status"
    /\ Len(tasks) = 1
    /\ tasks[1].msg.variant = "FinalizedSlotNotify"
    /\ wire # None
    /\ wire[1].topic = "geyser.nft_off_chain_data"
    /\ errs = 0

\* ------------------------------------------------------------------ C22

\* the fields of AccountUpdate, and the field of NativeAccountInfo that stands for each
AccountUpdateFields ==
    { "key", "lamports", "owner", "executable", "rent_epoch", "data", "write_version",
      "slot", "is_startup" }

NativeField(f) == IF f = "key" THEN "pubkey" ELSE f

\* C22: decoding the compact encoding of an AccountUpdate gives a value equal to it in
\* every field: key, lamports, owner, executable, rent_epoch, data, write_version, slot
\* and is_startup.
C22_AccountRoundTrip ==
    res.op = "deserialize_account" =>
        \A f \in AccountUpdateFields :
            /\ NativeField(f) \in DOMAIN res.value
            /\ res.value[NativeField(f)] = args.value[f]

\* ------------------------------------------------------------------ C23

\* C23: decoding the compact encoding of an NftOffChainDataNotify gives a value equal to
\* it in pubkey, uri, slot and is_startup, and decoding the encoding of a slot number
\* gives that number.
C23_RoundTrips ==
    /\ res.op = "deserialize_off_chain_data" =>
          /\ DOMAIN res.value = {"pubkey", "uri", "slot", "is_startup"}
          /\ \A f \in DOMAIN res.value : res.value[f] = args.value[f]
    /\ res.op = "deserialize_finalized_slot" => res.value = args.value

\* an NftOffChainDataNotify of a startup write came back from its encoding
C23_Witness ==
    /\ res.op = "deserialize_off_chain_data"
    /\ args.value.is_startup
    /\ args.value.slot = 0
    /\ args.value.uri = UriWide
    /\ res.value.pubkey = K2_TXT

\* ------------------------------------------------------------------ C24

\* C24: serialize_transaction is lossless: a TransactionNotify that differs from the encoded
\* one, in its status result, in a reward's commission or reward_type, in a token balance
\* or in the presence of an optional list, is encoded to a different content.
C24_Lossless ==
    res.op = "serialize_transaction" =>
        \A other \in TransactionNotifies \ {args.value} :
            serialize_transaction(other) # res.value

\* ------------------------------------------------------------------ C25

\* the rewards vector of an encoded transaction, when the table has one
EncodedRewards(data) == unwrap(data.root.transaction_meta).rewards

\* the reward_type an encoded reward has for the reward_type of its source
RewardTypeOf(reward_type) == IF reward_type = None THEN "None" ELSE unwrap(reward_type)

\* C25: in the content serialize_transaction makes, the rewards vector is present exactly
\* when the source list is, with as many rewards in the same order; each reward has the
\* reward_type of its source, None exactly when the source has none, and the commission of
\* its source, 0 when the source has none; the message tag is Legacy for a Legacy message
\* and V0 for a V0 message.
C25_RewardsAndTag ==
    res.op = "serialize_transaction" =>
        LET source  == args.value.transaction_meta.rewards
            encoded == EncodedRewards(res.value)
            tag     == unwrap(res.value.root.transaction).message_type
        IN  /\ is_some(encoded) <=> is_some(source)
            /\ is_some(source) =>
                   /\ unwrap(encoded).len = Len(unwrap(source))
                   /\ \A i \in 1..Len(unwrap(source)) :
                          LET from == unwrap(source)[i]
                              to   == to_vec(unwrap(encoded))[i]
                          IN  /\ to.reward_type = RewardTypeOf(from.reward_type)
                              /\ to.reward_type = "None" <=> from.reward_type = None
                              /\ to.reward_type \in {"Fee", "Rent", "Staking", "Voting", "None"}
                              /\ unwrap_or(to.commission, 0) = unwrap_or(from.commission, 0)
                              /\ to_vec(unwrap(to.pubkey)) = from.pubkey
            /\ tag = "Legacy" <=> args.value.transaction.message.tag = "Legacy"
            /\ tag = "V0" <=> args.value.transaction.message.tag = "V0"

\* a V0 transaction is encoded whose first reward has neither reward_type nor commission
\* and whose second has both
C25_Witness ==
    /\ res.op = "serialize_transaction"
    /\ args.value.transaction.message.tag = "V0"
    /\ args.value.transaction_meta.rewards
           = Some(<<Reward(None, None), Reward(Some("Fee"), Some(7))>>)
    /\ EncodedRewards(res.value) # None

\* ------------------------------------------------------------------ C26

\* the pubkey or the owner of the account is not 32 bytes long
Malformed(acct) == Len(acct.pubkey) # KEY_LEN \/ Len(acct.owner) # KEY_LEN

\* the selector of the loaded plugin takes the account
SelectedBy(account, is_startup) ==
    IF account.version = "V0_0_1"
    THEN is_selected(unwrap(inner).acct_sel, account.info, is_startup)
    ELSE is_selected_2(unwrap(inner).acct_sel, account.info, is_startup)

\* C26: an update_account call on a loaded plugin with a selected account whose pubkey
\* or owner is not 32 bytes long returns an error and schedules nothing; it leaves the
\* selectors, the sender, the runtime's units and the host as they were, so that the
\* notifications after it find the state they would have found without it.
C26_MalformedKey ==
    [][ ( /\ Loaded
          /\ call'.op = "update_account"
          /\ Malformed(call'.account.info)
          /\ SelectedBy(call'.account, call'.is_startup)
          /\ update_account(call'.account, call'.slot, call'.is_startup) ) =>
            /\ call'.ret.kind \notin {"Ok", "panic"}
            /\ call'.spawned = <<>>
            /\ UNCHANGED <<inner, tasks, errs, lock, wire>>
            /\ HostRunning' ]_vars

\* a loaded plugin with the off-chain flag set returned an error from the update of a
\* selected metadata account whose pubkey is 3 bytes long, and scheduled nothing
C26_Witness ==
    /\ Loaded
    /\ call.op = "update_account"
    /\ Selected
    /\ with_offchain(unwrap(inner).acct_sel)
    /\ call.account.info.pubkey = BadKey
    /\ call.account.info.owner = MPL_METADATA
    /\ call.account.info.data = DataOk
    /\ call.ret.kind = "Custom"
    /\ call.spawned = <<>>
    /\ tasks = <<>>

\* ------------------------------------------------------------------ C27

\* an entry of the owner allowlist or of the program allowlist is not a key
UnparsableEntry(cfg) ==
    /\ cfg.readable
    /\ \/ \E s \in cfg.accounts.owners : Pubkey_from_str(s) = None
       \/ \E s \in cfg.transaction_programs : Pubkey_from_str(s) = None

\* C27: on_load with a configuration one of whose owner or program entries does not
\* parse as a key returns an error and installs nothing; as long as nothing is installed
\* every notification returns the "not initialized" failure and schedules nothing; and
\* the plugin gets its selectors, runtime and sender only in an on_load that returns
\* success.
C27_OnLoadFailure ==
    /\ [] ( /\ (call.op = "on_load" /\ UnparsableEntry(call.cfg)) =>
                  /\ call.ret.kind = "Custom"
                  /\ inner = None
                  /\ tasks = <<>>
            /\ ( /\ inner = None
                 /\ call.op \in { "update_account", "update_slot_status", "notify_transaction",
                                   "notify_block_metadata" } ) =>
                  /\ call.ret.kind \notin {"Ok", "panic"}
                  /\ call.ret.msg = UNINIT
                  /\ call.spawned = <<>>
                  /\ tasks = <<>> )
    /\ [][ inner' # inner => /\ inner = None
                             /\ call'.op = "on_load"
                             /\ call'.ret = Ok ]_vars

\* on_load returned an error for a configuration whose program allowlist has an entry
\* that is not a key, and nothing is installed
C27_Witness ==
    /\ call.op = "on_load"
    /\ call.cfg.readable
    /\ BAD_TXT \in call.cfg.transaction_programs
    /\ \A s \in call.cfg.accounts.owners : Pubkey_from_str(s) # None
    /\ call.ret = PluginError("Custom", "Failed to create instruction selector")
    /\ inner = None

\* ------------------------------------------------------------------ C28

\* C28: on a loaded plugin every update_account call returns a result, success or an
\* error, and never unwinds into the host, whatever the account's owner and data.
C28_UpdateAccountReturns ==
    (Loaded /\ call.op = "update_account") => call.ret.kind # "panic"

\* ------------------------------------------------------------------ C29

\* the units the call spawned have an AccountUpdate with the key, the slot and the
\* startup flag of the NftOffChainDataNotify data
AccountUpdateFor(spawned, data) ==
    \E j \in UnitsOf(spawned, "AccountUpdate") :
        /\ Pubkey_to_string(spawned[j].msg.payload.key) = data.pubkey
        /\ spawned[j].msg.payload.slot = data.slot
        /\ spawned[j].msg.payload.is_startup = data.is_startup

\* C29: every NftOffChainDataNotify a call spawns comes from an update_account call
\* whose account passed the selector and that spawned an AccountUpdate with the same
\* key, slot and startup flag; an update_account call whose account the selector
\* rejects spawns nothing; and an NftOffChainDataNotify gets onto the runtime only
\* as one of the units such a call spawned.
C29_NeverAlone ==
    /\ [] ( /\ \A i \in UnitsOf(call.spawned, "NftOffChainDataNotify") :
                  /\ call.op = "update_account"
                  /\ Loaded /\ Selected
                  /\ AccountUpdateFor(call.spawned, call.spawned[i].msg.payload)
            /\ (Loaded /\ call.op = "update_account" /\ ~Selected) => call.spawned = <<>> )
    /\ [][ \A i \in UnitsOf(tasks', "NftOffChainDataNotify") :
             \/ \E k \in UnitsOf(tasks, "NftOffChainDataNotify") : tasks[k].msg = tasks'[i].msg
             \/ /\ call'.op = "update_account"
                /\ tasks' = tasks \o call'.spawned
                /\ AccountUpdateFor(call'.spawned, tasks'[i].msg.payload) ]_vars

\* the NftOffChainDataNotify of a selected metadata account waits on the runtime after
\* the AccountUpdate of the same call has gone out
C29_Witness ==
    /\ call.op = "update_account"
    /\ Len(call.spawned) = 2
    /\ call.spawned[1].msg.variant = "AccountUpdate"
    /\ call.spawned[2].msg.variant = "NftOffChainDataNotify"
    /\ call.spawned[2].msg.payload.pubkey = K2_TXT
    /\ call.spawned[1].msg.payload.key = K2
    /\ Len(tasks) = 1
    /\ tasks[1].msg = call.spawned[2].msg

\* ------------------------------------------------------------------ C30

\* the keys a vector of Pubkey tables holds
KeysOf(vector) == { to_vec(unwrap(to_vec(unwrap(vector))[i].key)) : i \in 1..unwrap(vector).len }

\* the account keys of an encoded transaction: the static keys of its message and, for a
\* V0 message, the addresses it loaded
EncodedAccountKeys(data) ==
    LET tx      == unwrap(data.root.transaction)
        message == unwrap(tx.message)
    IN  IF tx.message_type = "Legacy"
        THEN KeysOf(message.account_keys)
        ELSE KeysOf(unwrap(message.message).account_keys)
             \cup KeysOf(unwrap(message.loaded_addresses).writable)
             \cup KeysOf(unwrap(message.loaded_addresses).readonly)

\* the status an encoded transaction reads back
EncodedStatus(data) == unwrap_or(unwrap(data.root.transaction_meta).status, FALSE)

\* the account keys of the message of a TransactionNotify
NotifiedAccountKeys(message) ==
    IF message.tag = "Legacy" THEN message.account_keys
    ELSE message.message.account_keys \o message.loaded_addresses.writable
                                      \o message.loaded_addresses.readonly

\* the TransactionNotify succeeded and names a program of the loaded plugin's allowlist
OkAndSelected(transaction) ==
    /\ Loaded
    /\ transaction.transaction_meta.status = [kind |-> "Ok"]
    /\ \E i \in 1..Len(NotifiedAccountKeys(transaction.transaction.message)) :
          NotifiedAccountKeys(transaction.transaction.message)[i]
              \in unwrap(inner).tx_sel.programs

\* C30: every TransactionNotify a call spawned or that waits on the runtime has an ok
\* status and an account key in the program allowlist, and every transaction record
\* handed to the producer has the status true and a key of the allowlist among its
\* account keys.
C30_PublishedTransactionsOk ==
    /\ \A i \in UnitsOf(call.spawned, "TransactionNotify") :
          OkAndSelected(call.spawned[i].msg.payload)
    /\ \A i \in UnitsOf(tasks, "TransactionNotify") : OkAndSelected(tasks[i].msg.payload)
    /\ (wire # None /\ wire[1].data.method = "serialize_transaction") =>
          /\ Loaded
          /\ EncodedStatus(wire[1].data.data) = TRUE
          /\ EncodedAccountKeys(wire[1].data.data) \cap unwrap(inner).tx_sel.programs # {}

\* the record of a V0 transaction went to the producer with the status true; the one
\* key of the allowlist it names is an address it loaded
C30_Witness ==
    /\ wire # None
    /\ wire[1].data.method = "serialize_transaction"
    /\ unwrap(wire[1].data.data.root.transaction).message_type = "V0"
    /\ EncodedStatus(wire[1].data.data) = TRUE
    /\ unwrap(inner).tx_sel.programs = {K1}
    /\ EncodedAccountKeys(wire[1].data.data) = {K1, K2}

====
